---------------------------- MODULE Spec2Model ----------------------------
(***************************************************************************)
(* A model of astock_single: the rule language of strategy.py (repetition  *)
(* expansion, moving-average terms, the percentage-change gate), the data  *)
(* lookups of data.py and the replay engine of backtest.py.                *)
(*                                                                         *)
(* Text is modelled as text: a Python str is a sequence of one-character   *)
(* strings, and the three regular expressions of StrategyParser, str       *)
(* replace, str(float) and eval are modelled on those sequences.           *)
(*                                                                         *)
(* Numbers: money and prices are integers in units of 0.001 yuan, percent  *)
(* values are integers in units of 0.01 percent, dates are day ordinals.   *)
(* Python floats are modelled as exact rationals of those units.           *)
(***************************************************************************)
EXTENDS Integers, Sequences, FiniteSets, TLC

VARIABLES
    pc,               \* position of the modelled call
    call,             \* the arguments of the modelled call
    ret,              \* its return value
    expression,       \* expand_repeat_expression: local `expression`
    prev_expression,  \* expand_repeat_expression: local `prev_expression`
    kline_data,       \* run_backtest: the series dictionary (as rewritten at backtest.py:54-58)
    backtest_data,    \* run_backtest: the rows of the window
    idx,              \* run_backtest: position of the day loop in backtest_data
    trades,           \* BacktestEngine.trades
    current_position, \* BacktestEngine.current_position
    capital,          \* BacktestEngine.capital
    signal,           \* run_backtest: the last signal of evaluate_strategy
    twin,             \* a second engine replaying a second input (two-run comparison)
    stock_codes,      \* module-level run_backtest: local `stock_codes`
    results,          \* module-level run_backtest: local `results`
    DEFAULT_CONFIG,   \* config.py: the module-level dict and the dicts nested in it
    config_file       \* the file at the configuration path (None: no file)

vars == <<pc, call, ret, expression, prev_expression, kline_data, backtest_data,
          idx, trades, current_position, capital, signal, twin, stock_codes, results, DEFAULT_CONFIG, config_file>>

\* The locals of the module-level run_backtest.
batch_vars == <<stock_codes, results>>

\* The state of config.py and of the configuration path.
config_vars == <<DEFAULT_CONFIG, config_file>>

\* Python's None.
None == [none |-> TRUE]

(***************************************************************************)
(* Text helpers                                                            *)
(***************************************************************************)
Digits == {"0", "1", "2", "3", "4", "5", "6", "7", "8", "9"}

\* \s of the regular expressions (the rule texts hold no other blank).
Whitespace == {" "}

DigitVal(c) ==
    CASE c = "0" -> 0 [] c = "1" -> 1 [] c = "2" -> 2 [] c = "3" -> 3
      [] c = "4" -> 4 [] c = "5" -> 5 [] c = "6" -> 6 [] c = "7" -> 7
      [] c = "8" -> 8 [] c = "9" -> 9

DigitChar(d) == <<"0", "1", "2", "3", "4", "5", "6", "7", "8", "9">>[d + 1]

\* s[i], or "" past either end.
At(s, i) == IF i >= 1 /\ i <= Len(s) THEN s[i] ELSE ""

\* The element of a one-element set.
Only(S) == CHOOSE x \in S : TRUE

\* The least element of a non-empty set of integers (the set is bound as a
\* value, so that it is computed once).
Min(S) == Only({(CHOOSE x \in T : \A y \in T : x <= y) : T \in {S}})

\* The first index j >= i with s[j] not in S (Len(s) + 1 when there is none):
\* where a greedy run of S-characters that starts at i stops.
SpanWhile(s, i, S) ==
    Min({j \in i..(Len(s) + 1) : j = Len(s) + 1 \/ s[j] \notin S} \cup {Len(s) + 1})

\* s[i .. j-1]
Slice(s, i, j) == SubSeq(s, i, j - 1)

\* int(text) of a run of digits.
RECURSIVE ToInt(_)
ToInt(ds) ==
    IF ds = <<>> THEN 0
    ELSE 10 * ToInt(SubSeq(ds, 1, Len(ds) - 1)) + DigitVal(ds[Len(ds)])

\* str(n) of a non-negative int.
RECURSIVE IntToChars(_)
IntToChars(n) ==
    IF n < 10 THEN <<DigitChar(n)>>
    ELSE IntToChars(n \div 10) \o <<DigitChar(n % 10)>>

\* Whether text t occurs in s at index i.
StartsAt(s, i, t) ==
    /\ i + Len(t) - 1 <= Len(s)
    /\ \A k \in 1..Len(t) : s[i + k - 1] = t[k]

\* sep.join(parts)
RECURSIVE Join(_, _)
Join(parts, sep) ==
    IF parts = <<>> THEN <<>>
    ELSE IF Len(parts) = 1 THEN parts[1]
    ELSE parts[1] \o sep \o Join(Tail(parts), sep)

\* A test for blank text that never finds one.
NeverBlank(s) == FALSE

\* str.strip() leaves nothing.
IsBlank(s) == \A i \in 1..Len(s) : s[i] \in Whitespace

(***************************************************************************)
(* StrategyParser.ma_pattern  ([DWM])(\d+)MA(?:-(\d+))?                    *)
(***************************************************************************)
NoMatch == [matched |-> FALSE]

\* The match of ma_pattern that starts at index i; `stop` is the index after it.
MaMatchAt(s, i) ==
    LET j == SpanWhile(s, i + 1, Digits)
    IN  IF /\ At(s, i) \in {"D", "W", "M"}
           /\ j > i + 1
           /\ At(s, j) = "M"
           /\ At(s, j + 1) = "A"
        THEN LET k == j + 2
                 m == SpanWhile(s, k + 1, Digits)
             IN  IF At(s, k) = "-" /\ m > k + 1
                 THEN [matched |-> TRUE, start |-> i, stop |-> m,
                       prefix |-> s[i], period |-> Slice(s, i + 1, j),
                       offset |-> Slice(s, k + 1, m)]
                 ELSE [matched |-> TRUE, start |-> i, stop |-> k,
                       prefix |-> s[i], period |-> Slice(s, i + 1, j),
                       offset |-> <<>>]
        ELSE NoMatch

\* Where the regex engine finds the next match of ma_pattern scanning from i
\* (0 when there is none).
MaSearchFrom(s, i) ==
    LET starts == {q \in i..Len(s) : MaMatchAt(s, q).matched}
    IN  IF starts = {} THEN 0 ELSE Min(starts)

\* The next match of ma_pattern scanning from i, NoMatch when there is none.
MaSearch(s, i) ==
    Only({IF q = 0 THEN NoMatch ELSE MaMatchAt(s, q) : q \in {MaSearchFrom(s, i)}})

\* ma_pattern.finditer(s): the non-overlapping matches, left to right, from i on.
RECURSIVE MaFindIter(_, _)
MaFindIter(s, i) ==
    LET q == MaSearchFrom(s, i)
    IN  IF q = 0 THEN <<>>
        ELSE <<MaMatchAt(s, q)>> \o MaFindIter(s, MaMatchAt(s, q).stop)

\* match.group(0)
Group0(s, m) == Slice(s, m.start, m.stop)

(***************************************************************************)
(* StrategyParser.expand_repeat_expression                                 *)
(***************************************************************************)
\* add_offset that drops the offset the term carries.
AddOffsetIgnoresExisting(m, i) ==
    <<m.prefix>> \o m.period \o <<"M", "A", "-">> \o IntToChars(i)

\* add_offset (strategy.py:54-62) for copy i: the term with its offset raised by i.
AddOffset(m, i) ==
    LET new_offset == IF m.offset # <<>> THEN ToInt(m.offset) + i ELSE i
    IN  <<m.prefix>> \o m.period \o <<"M", "A", "-">> \o IntToChars(new_offset)

\* self.ma_pattern.sub(add_offset, inner_expr), from index p on.  The match
\* found is bound as a value (the element of a one-element set), so that it is
\* computed once.
RECURSIVE MaSubAddOffset(_, _, _)
MaSubAddOffset(s, p, i) ==
    Only({IF ~m.matched THEN Slice(s, p, Len(s) + 1)
          ELSE Slice(s, p, m.start) \o AddOffset(m, i) \o MaSubAddOffset(s, m.stop, i) :
          m \in {MaSearch(s, p)}})

\* expanded_parts of replace_repeat: the copies i .. count-1.
RECURSIVE ExpandedParts(_, _, _)
ExpandedParts(inner_expr, i, count) ==
    IF i >= count THEN <<>>
    ELSE <<(IF i = 0 THEN <<"(">> \o inner_expr \o <<")">>
            ELSE <<"(">> \o MaSubAddOffset(inner_expr, 1, i) \o <<")">>)>>
         \o ExpandedParts(inner_expr, i + 1, count)

\* replace_repeat (strategy.py:44-67): the text that replaces one match.
ReplaceRepeat(inner_expr, count) ==
    Join(ExpandedParts(inner_expr, 0, count), <<" ", "&", "&", " ">>)

\* The match of repeat_pattern  \(([^()]+)\)\s*\*\s*(\d+)  that starts at i.
RepeatMatchAt(s, i) ==
    LET j == SpanWhile(s, i + 1, {s[x] : x \in 1..Len(s)} \ {"(", ")"})
        k == SpanWhile(s, j + 1, Whitespace)
        m == SpanWhile(s, k + 1, Whitespace)
        n == SpanWhile(s, m, Digits)
    IN  IF /\ At(s, i) = "("
           /\ j > i + 1
           /\ At(s, j) = ")"
           /\ At(s, k) = "*"
           /\ n > m
        THEN [matched |-> TRUE, start |-> i, stop |-> n,
              inner |-> Slice(s, i + 1, j), count |-> Slice(s, m, n)]
        ELSE NoMatch

\* self.repeat_pattern.sub(replace_repeat, s), from index p on: one pass.
RepeatSearchFrom(s, i) ==
    LET starts == {q \in i..Len(s) : RepeatMatchAt(s, q).matched}
    IN  IF starts = {} THEN 0 ELSE Min(starts)

\* The next match of repeat_pattern scanning from i, NoMatch when there is none.
RepeatSearch(s, i) ==
    Only({IF q = 0 THEN NoMatch ELSE RepeatMatchAt(s, q) : q \in {RepeatSearchFrom(s, i)}})

RECURSIVE RepeatSub(_, _)
RepeatSub(s, p) ==
    Only({IF ~m.matched THEN Slice(s, p, Len(s) + 1)
          ELSE Slice(s, p, m.start) \o ReplaceRepeat(m.inner, ToInt(m.count))
               \o RepeatSub(s, m.stop) :
          m \in {RepeatSearch(s, p)}})

\* A loop that ends after its first pass.
LoopDoneAfterOnePass(prev, e) == prev # None

\* A loop condition that never ends the loop.
LoopNeverDone(prev, e) == FALSE

\* The loop condition of strategy.py:71, negated: the last pass changed nothing.
LoopDone(prev, e) == prev = [text |-> e]

\* The loop of strategy.py:70-75 from the state (prev, e).
RECURSIVE ExpandLoop(_, _)
ExpandLoop(prev, e) ==
    IF LoopDone(prev, e) THEN e
    ELSE ExpandLoop([text |-> e], RepeatSub(e, 1))

\* expand_repeat_expression(expression)
ExpandRepeatExpression(e) == ExpandLoop(None, e)

(***************************************************************************)
(* data.py: frames, moving averages and lookups                            *)
(*                                                                         *)
(* A DataFrame is [rows |-> <<row, ...>>], rows ascending by date; a row   *)
(* is [date, close, pct_change, ma], `ma` holding the MA<period> columns   *)
(* the frame has (a function from the periods computed so far).            *)
(* A float is Num(v) or NaN; prices and means are in units of 0.001.       *)
(***************************************************************************)
Num(v) == [num |-> v]
NaN == [nan |-> TRUE]

Row(date, close, pct) == [date |-> date, close |-> close, pct_change |-> pct, ma |-> <<>>]

Frame(rows) == [rows |-> rows]

RECURSIVE SumClose(_, _, _)
SumClose(rows, lo, hi) ==
    IF lo > hi THEN 0 ELSE rows[hi].close + SumClose(rows, lo, hi - 1)

\* df['close'].rolling(window=period).mean() at row i: undefined (NaN) for the
\* first period-1 rows.  The inputs keep the mean a whole number of units.
RollingMean(rows, period, i) ==
    IF i < period THEN NaN
    ELSE Num(SumClose(rows, i - period + 1, i) \div period)

\* calculate_ma(df, periods)
CalculateMa(df, periods) ==
    IF df = None \/ Len(df.rows) = 0 THEN df
    ELSE [df EXCEPT !.rows =
            [i \in 1..Len(df.rows) |->
                [df.rows[i] EXCEPT !.ma =
                    [p \in (DOMAIN df.rows[i].ma) \cup periods |->
                        IF p \in periods THEN RollingMean(df.rows, p, i)
                        ELSE df.rows[i].ma[p]]]]]

\* df[df['date'] <= date]
UpToDateNoFilter(df, date) == df

UpToDate(df, date) ==
    [df EXCEPT !.rows = SelectSeq(df.rows, LAMBDA r : r.date <= date)]

\* get_ma_value(df, date, period, offset)
GetMaValue(df, date, period, offset) ==
    IF df = None \/ Len(df.rows) = 0 THEN None
    ELSE LET withcol == IF period \notin DOMAIN df.rows[1].ma
                        THEN CalculateMa(df, {period}) ELSE df
             df_filtered == UpToDate(withcol, date).rows
             row == Len(df_filtered) - 1 - offset
         IN  IF Len(df_filtered) <= offset THEN None
             ELSE IF row < 0 THEN None
             ELSE df_filtered[row + 1].ma[period]

\* get_close_price(df, date, offset)
GetClosePrice(df, date, offset) ==
    IF df = None \/ Len(df.rows) = 0 THEN None
    ELSE LET df_filtered == UpToDate(df, date).rows
             row == Len(df_filtered) - 1 - offset
         IN  IF Len(df_filtered) <= offset THEN None
             ELSE IF row < 0 THEN None
             ELSE Num(df_filtered[row + 1].close)

\* A percentage as the exact ratio n / d percent.
Pct(n, d) == [n |-> n, d |-> d]

\* The provider's column, absent from a frame built without it.
NoColumn == [nocolumn |-> TRUE]

\* get_pct_change(df, date): the column's value (in 0.01 percent) of the last row
\* up to date; computed from the closes when the frame has no such column.
GetPctChange(df, date) ==
    IF df = None \/ Len(df.rows) = 0 THEN None
    ELSE LET df_filtered == UpToDate(df, date).rows
             n == Len(df_filtered)
         IN  IF n = 0 THEN None
             ELSE IF df_filtered[n].pct_change # NoColumn
                  THEN Pct(df_filtered[n].pct_change.num, 100)
             ELSE IF n >= 2
                  THEN Pct((df_filtered[n].close - df_filtered[n - 1].close) * 100,
                           df_filtered[n - 1].close)
             ELSE Pct(0, 1)

(***************************************************************************)
(* Python text and evaluation: str(float), str.replace, str.strip, eval    *)
(***************************************************************************)
\* str(x) of a non-negative float of at most three decimals: "10.0", "10.25".
FormatFloat(v) ==
    LET fr == v % 1000
        d3 == <<DigitChar(fr \div 100), DigitChar((fr \div 10) % 10), DigitChar(fr % 10)>>
    IN  IntToChars(v \div 1000) \o <<".">>
        \o (IF fr % 100 = 0 THEN SubSeq(d3, 1, 1)
            ELSE IF fr % 10 = 0 THEN SubSeq(d3, 1, 2)
            ELSE d3)

\* str(value) of a looked-up mean.
StrValue(value) == IF value = NaN THEN <<"n", "a", "n">> ELSE FormatFloat(value.num)

\* s.strip()
Strip(s) ==
    LET lo == SpanWhile(s, 1, Whitespace)
        his == {j \in lo..Len(s) : s[j] \notin Whitespace}
    IN  IF his = {} THEN <<>>
        ELSE SubSeq(s, lo, CHOOSE j \in his : \A x \in his : x <= j)

\* s.replace(old, new) from index p on: every non-overlapping occurrence, left to right.
RECURSIVE StrReplace(_, _, _, _)
StrReplace(s, p, old, new) ==
    LET found == {q \in p..Len(s) : StartsAt(s, q, old)}
    IN  IF found = {} THEN Slice(s, p, Len(s) + 1)
        ELSE Slice(s, p, Min(found)) \o new
             \o StrReplace(s, Min(found) + Len(old), old, new)

Letters ==
    {"a", "b", "c", "d", "e", "f", "g", "h", "i", "j", "k", "l", "m", "n", "o",
     "p", "q", "r", "s", "t", "u", "v", "w", "x", "y", "z", "_",
     "A", "B", "C", "D", "E", "F", "G", "H", "I", "J", "K", "L", "M", "N", "O",
     "P", "Q", "R", "S", "T", "U", "V", "W", "X", "Y", "Z"}

\* The value 1 (and True) in units of 0.001.
One == 10 * 100

\* The value of a number literal: int digits `ip`, fraction digits `fp`
\* (the texts evaluated carry at most three decimals).
LiteralValue(ip, fp) ==
    ToInt(ip) * One
    + (IF Len(fp) = 0 THEN 0
       ELSE IF Len(fp) = 1 THEN ToInt(fp) * 100
       ELSE IF Len(fp) = 2 THEN ToInt(fp) * 10
       ELSE ToInt(SubSeq(fp, 1, 3)))

\* The Python token that starts at index i of s (s[i] is not a blank).  A token
\* of kind "bad" makes the text a SyntaxError.  The characters of the rule
\* texts are covered; Python's other tokens do not occur in them.
NextToken(s, i) ==
    LET c == s[i]
    IN  IF c \in Digits \/ (c = "." /\ At(s, i + 1) \in Digits)
        THEN LET j == SpanWhile(s, i, Digits)
                 k == IF At(s, j) = "." THEN SpanWhile(s, j + 1, Digits) ELSE j
                 ip == Slice(s, i, j)
                 fp == IF k > j THEN Slice(s, j + 1, k) ELSE <<>>
                 octal == /\ k = j /\ Len(ip) > 1 /\ ip[1] = "0"
                          /\ \E x \in 1..Len(ip) : ip[x] # "0"
             IN  IF octal \/ At(s, k) \in Letters
                 THEN [k |-> "bad", stop |-> k]
                 ELSE [k |-> "num", v |-> LiteralValue(ip, fp), stop |-> k]
        ELSE IF c \in Letters
        THEN LET j == SpanWhile(s, i, Letters \cup Digits)
                 w == Slice(s, i, j)
             IN  IF w \in {<<"a", "n", "d">>, <<"o", "r">>, <<"n", "o", "t">>}
                 THEN [k |-> "op", text |-> w, stop |-> j]
                 ELSE [k |-> "name", text |-> w, stop |-> j]
        ELSE IF c \in {"<", ">", "=", "!"} /\ At(s, i + 1) = "="
        THEN [k |-> "op", text |-> <<c, "=">>, stop |-> i + 2]
        ELSE IF c \in {"<", ">", "(", ")", "-", "+", "*"}
        THEN [k |-> "op", text |-> <<c>>, stop |-> i + 1]
        ELSE [k |-> "bad", stop |-> i + 1]

RECURSIVE Tokens(_, _)
Tokens(s, i) ==
    LET i0 == SpanWhile(s, i, Whitespace)
    IN  IF i0 > Len(s) THEN <<>>
        ELSE <<NextToken(s, i0)>> \o Tokens(s, NextToken(s, i0).stop)

\* A parse: ok (no SyntaxError so far), pos (the next token), rt (evaluating
\* the part parsed raises, as a NameError does), v (its value; a bool is 1 or 0).
Parsed(pos, rt, v) == [ok |-> TRUE, pos |-> pos, rt |-> rt, v |-> v]
SynErr == [ok |-> FALSE, pos |-> 0, rt |-> FALSE, v |-> 0]

TokIs(ts, p, text) == p <= Len(ts) /\ ts[p].k = "op" /\ ts[p].text = text

CompOps == {<<">">>, <<"<">>, <<">", "=">>, <<"<", "=">>, <<"=", "=">>, <<"!", "=">>}

Compare(a, op, b) ==
    CASE op = <<">">> -> a > b
      [] op = <<"<">> -> a < b
      [] op = <<">", "=">> -> a >= b
      [] op = <<"<", "=">> -> a <= b
      [] op = <<"=", "=">> -> a = b
      [] op = <<"!", "=">> -> a # b

RECURSIVE PyOr(_, _), PyOrRest(_, _), PyOrStep(_, _, _)
RECURSIVE PyAnd(_, _), PyAndRest(_, _), PyAndStep(_, _, _)
RECURSIVE PyNot(_, _), PyComparison(_, _), PyCompRest(_, _, _), PyCompStep(_, _, _, _)
RECURSIVE PyArith(_, _), PyArithRest(_, _), PyArithStep(_, _, _)
RECURSIVE PyTerm(_, _), PyTermRest(_, _), PyTermStep(_, _, _)
RECURSIVE PyFactor(_, _), PyAtom(_, _)

\* A parse that failed stays failed.
Negated(r) == IF ~r.ok THEN SynErr ELSE Parsed(r.pos, r.rt, IF r.v = 0 THEN One ELSE 0)
Signed(r, minus) == IF ~r.ok THEN SynErr ELSE Parsed(r.pos, r.rt, IF minus THEN 0 - r.v ELSE r.v)

\* or_test: the right operand is evaluated only when the left one is false.
PyOr(ts, p) == PyOrRest(ts, PyAnd(ts, p))

PyOrRest(ts, l) ==
    IF ~l.ok THEN SynErr
    ELSE IF ~TokIs(ts, l.pos, <<"o", "r">>) THEN l
    ELSE PyOrStep(ts, l, PyAnd(ts, l.pos + 1))

PyOrStep(ts, l, r) ==
    IF ~r.ok THEN SynErr
    ELSE PyOrRest(ts,
            IF l.rt THEN Parsed(r.pos, TRUE, 0)
            ELSE IF l.v # 0 THEN Parsed(r.pos, FALSE, l.v)
            ELSE Parsed(r.pos, r.rt, r.v))

\* and_test: the right operand is evaluated only when the left one is true.
PyAnd(ts, p) == PyAndRest(ts, PyNot(ts, p))

PyAndRest(ts, l) ==
    IF ~l.ok THEN SynErr
    ELSE IF ~TokIs(ts, l.pos, <<"a", "n", "d">>) THEN l
    ELSE PyAndStep(ts, l, PyNot(ts, l.pos + 1))

PyAndStep(ts, l, r) ==
    IF ~r.ok THEN SynErr
    ELSE PyAndRest(ts,
            IF l.rt THEN Parsed(r.pos, TRUE, 0)
            ELSE IF l.v = 0 THEN Parsed(r.pos, FALSE, l.v)
            ELSE Parsed(r.pos, r.rt, r.v))

PyNot(ts, p) ==
    IF TokIs(ts, p, <<"n", "o", "t">>) THEN Negated(PyNot(ts, p + 1))
    ELSE PyComparison(ts, p)

\* comparison: a op b op c is (a op b) and (b op c), c evaluated only when needed.
PyComparison(ts, p) ==
    PyCompRest(ts, PyArith(ts, p), [any |-> FALSE, alive |-> TRUE, rt |-> FALSE])

PyCompRest(ts, l, acc) ==
    IF ~l.ok THEN SynErr
    ELSE IF l.pos <= Len(ts) /\ ts[l.pos].k = "op" /\ ts[l.pos].text \in CompOps
    THEN PyCompStep(ts, l, PyArith(ts, l.pos + 1),
                    IF acc.any THEN acc ELSE [acc EXCEPT !.rt = l.rt])
    ELSE IF ~acc.any THEN l
    ELSE Parsed(l.pos, acc.rt, IF acc.alive THEN One ELSE 0)

PyCompStep(ts, l, r, acc) ==
    IF ~r.ok THEN SynErr
    ELSE PyCompRest(ts, r,
            IF acc.rt \/ ~acc.alive THEN [acc EXCEPT !.any = TRUE]
            ELSE IF r.rt THEN [any |-> TRUE, alive |-> TRUE, rt |-> TRUE]
            ELSE [any |-> TRUE, rt |-> FALSE,
                  alive |-> Compare(l.v, ts[l.pos].text, r.v)])

PyArith(ts, p) == PyArithRest(ts, PyTerm(ts, p))

PyArithRest(ts, l) ==
    IF ~l.ok THEN SynErr
    ELSE IF TokIs(ts, l.pos, <<"+">>) \/ TokIs(ts, l.pos, <<"-">>)
    THEN PyArithStep(ts, l, PyTerm(ts, l.pos + 1))
    ELSE l

PyArithStep(ts, l, r) ==
    IF ~r.ok THEN SynErr
    ELSE PyArithRest(ts, Parsed(r.pos, l.rt \/ r.rt,
            IF TokIs(ts, l.pos, <<"+">>) THEN l.v + r.v ELSE l.v - r.v))

PyTerm(ts, p) == PyTermRest(ts, PyFactor(ts, p))

PyTermRest(ts, l) ==
    IF ~l.ok THEN SynErr
    ELSE IF TokIs(ts, l.pos, <<"*">>) THEN PyTermStep(ts, l, PyFactor(ts, l.pos + 1))
    ELSE l

PyTermStep(ts, l, r) ==
    IF ~r.ok THEN SynErr
    ELSE PyTermRest(ts, Parsed(r.pos, l.rt \/ r.rt, (l.v * r.v) \div One))

PyFactor(ts, p) ==
    IF TokIs(ts, p, <<"-">>) \/ TokIs(ts, p, <<"+">>)
    THEN Signed(PyFactor(ts, p + 1), TokIs(ts, p, <<"-">>))
    ELSE PyAtom(ts, p)

\* The closing parenthesis after a parenthesised expression.
Closed(ts, r) ==
    IF r.ok /\ TokIs(ts, r.pos, <<")">>) THEN [r EXCEPT !.pos = r.pos + 1] ELSE SynErr

\* atom: a number, a name (no name of the rule texts is bound: NameError when
\* evaluated), or a parenthesised expression.
PyAtom(ts, p) ==
    IF p > Len(ts) THEN SynErr
    ELSE IF ts[p].k = "num" THEN Parsed(p + 1, FALSE, ts[p].v)
    ELSE IF ts[p].k = "name" THEN Parsed(p + 1, TRUE, 0)
    ELSE IF TokIs(ts, p, <<"(">>) THEN Closed(ts, PyOr(ts, p + 1))
    ELSE SynErr

\* The outcome of eval: [raised |-> TRUE] for a SyntaxError or an exception
\* while evaluating, else the value.
Outcome(ts, r) ==
    IF r.ok /\ r.pos = Len(ts) + 1 /\ ~r.rt THEN [raised |-> FALSE, v |-> r.v]
    ELSE [raised |-> TRUE]

EvalTokens(ts) ==
    IF ts = <<>> \/ \E x \in 1..Len(ts) : ts[x].k = "bad" THEN [raised |-> TRUE]
    ELSE Outcome(ts, PyOr(ts, 1))

\* eval(text)
PyEval(s) == EvalTokens(Tokens(s, 1))

(***************************************************************************)
(* StrategyParser: evaluation of the K-line expression                     *)
(***************************************************************************)
\* MA_TYPES (strategy.py:17-21)
MA_TYPES == [D |-> "daily", W |-> "weekly", M |-> "monthly"]

\* parse_ma_expression that reads the daily series where the series named is
\* None.
ParseMaExpressionDailyFallback(ma_expr, kd, date) ==
    LET match == MaMatchAt(Strip(ma_expr), 1)
    IN  IF ~match.matched THEN None
        ELSE LET period == ToInt(match.period)
                 offset == IF match.offset # <<>> THEN ToInt(match.offset) ELSE 0
                 kline_type == MA_TYPES[match.prefix]
             IN  IF kline_type \notin DOMAIN kd THEN None
                 ELSE IF kd[kline_type] = None
                 THEN GetMaValue(kd.daily, date, period, offset)
                 ELSE GetMaValue(kd[kline_type], date, period, offset)

\* parse_ma_expression(expression, kd, date)
ParseMaExpression(ma_expr, kd, date) ==
    LET match == MaMatchAt(Strip(ma_expr), 1)
    IN  IF ~match.matched THEN None
        ELSE LET period == ToInt(match.period)
                 offset == IF match.offset # <<>> THEN ToInt(match.offset) ELSE 0
                 kline_type == MA_TYPES[match.prefix]
             IN  IF kline_type \notin DOMAIN kd THEN None
                 ELSE GetMaValue(kd[kline_type], date, period, offset)

\* The keys of ma_values in insertion order: the distinct texts of the matches,
\* each where it first occurs (strategy.py:147-153).
RECURSIVE MaKeys(_, _, _)
MaKeys(s, matches, seen) ==
    IF matches = <<>> THEN <<>>
    ELSE LET t == Group0(s, Head(matches))
         IN  IF t \in seen THEN MaKeys(s, Tail(matches), seen)
             ELSE <<t>> \o MaKeys(s, Tail(matches), seen \cup {t})

\* The loop of strategy.py:156-157: each key replaced by str(value), in order.
RECURSIVE SubstituteValues(_, _, _, _)
SubstituteValues(py_expr, keys, kd, date) ==
    IF keys = <<>> THEN py_expr
    ELSE SubstituteValues(
            StrReplace(py_expr, 1, Head(keys),
                       StrValue(ParseMaExpression(Head(keys), kd, date))),
            Tail(keys), kd, date)

\* strategy.py:141
ToPython(expanded_expr) ==
    StrReplace(
        StrReplace(
            StrReplace(expanded_expr, 1, <<"&", "&">>, <<" ", "a", "n", "d", " ">>),
            1, <<"|", "|">>, <<" ", "o", "r", " ">>),
        1, <<"!">>, <<" ", "n", "o", "t", " ">>)

\* strategy.py:159-164: eval of the substituted text; an exception gives False.
EvalResult(result) == IF result.raised THEN FALSE ELSE result.v # 0

\* strategy.py:143-161 on the expanded expression and the keys of ma_values.
EvaluateWithKeys(expanded_expr, keys, kd, date) ==
    IF \E x \in 1..Len(keys) : ParseMaExpression(keys[x], kd, date) = None
    THEN FALSE
    ELSE EvalResult(PyEval(SubstituteValues(ToPython(expanded_expr), keys, kd, date)))

\* strategy.py:143-164 on the expanded expression.
EvaluateExpanded(expanded_expr, kd, date) ==
    EvaluateWithKeys(expanded_expr,
                     MaKeys(expanded_expr, MaFindIter(expanded_expr, 1), {}), kd, date)

\* evaluate_kline_strategy(expression, kd, date)
EvaluateKlineStrategy(expr, kd, date) ==
    IF IsBlank(expr) THEN TRUE
    ELSE EvaluateExpanded(ExpandRepeatExpression(expr), kd, date)

(***************************************************************************)
(* StrategyParser: the percentage-change gate                              *)
(***************************************************************************)
\* KLINE_TYPES (strategy.py:24-28)
KLINE_TYPES == [DK |-> "daily", WK |-> "weekly", MK |-> "monthly"]

\* float(text) of  -?\d+(\.\d+)?  as an exact ratio.
RECURSIVE Pow10(_)
Pow10(n) == IF n = 0 THEN 1 ELSE 10 * Pow10(n - 1)

\* The match of kline_pattern
\*   ([DWM]K)\s*([<>=!]+)\s*(-?\d+(?:\.\d+)?)\s*%?
\* that starts at index i (its groups; the trailing \s*%? adds no group).
KlineMatchAt(s, i) ==
    LET j == SpanWhile(s, i + 2, Whitespace)
        k == SpanWhile(s, j, {"<", ">", "=", "!"})
        m == SpanWhile(s, k, Whitespace)
        n0 == IF At(s, m) = "-" THEN m + 1 ELSE m
        n == SpanWhile(s, n0, Digits)
        f == IF At(s, n) = "." /\ At(s, n + 1) \in Digits
             THEN SpanWhile(s, n + 1, Digits) ELSE n
    IN  IF /\ At(s, i) \in {"D", "W", "M"}
           /\ At(s, i + 1) = "K"
           /\ k > j
           /\ n > n0
        THEN [matched |-> TRUE,
              kline_type_str |-> <<s[i], "K">>,
              operator |-> Slice(s, j, k),
              negative |-> n0 > m,
              int_part |-> Slice(s, n0, n),
              frac_part |-> IF f > n THEN Slice(s, n + 1, f) ELSE <<>>]
        ELSE NoMatch

\* kline_pattern.search(s)
KlineSearch(s) ==
    LET starts == {q \in 1..Len(s) : KlineMatchAt(s, q).matched}
    IN  IF starts = {} THEN NoMatch ELSE KlineMatchAt(s, Min(starts))

\* float(match.group(3)), in percent.
Threshold(m) ==
    Pct((IF m.negative THEN -1 ELSE 1) * ToInt(m.int_part \o m.frac_part),
        Pow10(Len(m.frac_part)))

\* evaluate_comparison(left_val, operator, right_val) on exact ratios.
EvaluateComparisonNoEq(l, operator, r) ==
    IF operator = <<">">> \/ operator = <<">", "=">> THEN l.n * r.d > r.n * l.d
    ELSE IF operator = <<"<">> \/ operator = <<"<", "=">> THEN l.n * r.d < r.n * l.d
    ELSE FALSE

EvaluateComparison(l, operator, r) ==
    IF operator = <<">">> THEN l.n * r.d > r.n * l.d
    ELSE IF operator = <<"<">> THEN l.n * r.d < r.n * l.d
    ELSE IF operator = <<">", "=">> THEN l.n * r.d >= r.n * l.d
    ELSE IF operator = <<"<", "=">> THEN l.n * r.d <= r.n * l.d
    ELSE IF operator = <<"=", "=">> THEN l.n * r.d = r.n * l.d
    ELSE IF operator = <<"!", "=">> THEN l.n * r.d # r.n * l.d
    ELSE FALSE

KlineTypeOf(kline_type_str) ==
    IF kline_type_str = <<"D", "K">> THEN KLINE_TYPES.DK
    ELSE IF kline_type_str = <<"W", "K">> THEN KLINE_TYPES.WK
    ELSE KLINE_TYPES.MK

\* evaluate_trade_buy_condition(expression, kd, date)
EvaluateTradeBuyCondition(expr, kd, date) ==
    IF IsBlank(expr) THEN TRUE
    ELSE LET match == KlineSearch(expr)
         IN  IF ~match.matched THEN TRUE
             ELSE LET kline_type == KlineTypeOf(match.kline_type_str)
                  IN  IF kline_type \notin DOMAIN kd THEN FALSE
                      ELSE LET pct_change == GetPctChange(kd[kline_type], date)
                           IN  IF pct_change = None THEN FALSE
                               ELSE EvaluateComparison(pct_change, match.operator,
                                                       Threshold(match))

(***************************************************************************)
(* TradingStrategy and evaluate_strategy (strategy.py:203-354)             *)
(*                                                                         *)
(* A configuration is the dictionary load_config returns: every key is     *)
(* present.  GAIN and LOSS are in units of 0.01 percent, PERIOD in days.   *)
(* The optional strings `action` and `reason` are "None" when unset.       *)
(***************************************************************************)
\* The reasons of a sale: "止盈", "止损", "到期" (strategy.py:286-297) and
\* "回测结束" (backtest.py:107).
TakeProfit == "take-profit"
StopLoss == "stop-loss"
Expired == "expired"
BacktestEnd == "backtest-end"

\* TradingStrategy.__init__
TradingStrategy(config) ==
    [kline_buy_strategy |-> config.kline_strategy.buy,
     buy_condition |-> config.trade_strategy.BUYS,
     gain_pct |-> config.trade_strategy.SELL.GAIN,
     loss_pct |-> config.trade_strategy.SELL.LOSS,
     hold_period |-> config.trade_strategy.SELL.PERIOD]

\* TradingStrategy.check_kline_strategy
CheckKlineStrategy(strategy, kd, date) ==
    EvaluateKlineStrategy(strategy.kline_buy_strategy, kd, date)

\* check_buy_signal without the second test.
CheckBuySignalNoGate(strategy, kd, date, has_position) ==
    IF has_position THEN FALSE
    ELSE IF ~CheckKlineStrategy(strategy, kd, date) THEN FALSE
    ELSE TRUE

\* TradingStrategy.check_buy_signal
CheckBuySignal(strategy, kd, date, has_position) ==
    IF has_position THEN FALSE
    ELSE IF ~CheckKlineStrategy(strategy, kd, date) THEN FALSE
    ELSE IF ~EvaluateTradeBuyCondition(strategy.buy_condition, kd, date) THEN FALSE
    ELSE TRUE

\* check_sell_signal with the holding period tested first.
CheckSellSignalExpiryFirst(strategy, kd, date, buy_price, buy_date) ==
    IF kd.daily = None THEN [should_sell |-> FALSE, reason |-> ""]
    ELSE LET current_price == GetClosePrice(kd.daily, date, 0)
         IN  IF current_price = None THEN [should_sell |-> FALSE, reason |-> ""]
             ELSE IF date - buy_date >= strategy.hold_period
                  THEN [should_sell |-> TRUE, reason |-> Expired]
             ELSE IF (current_price.num - buy_price) * 10000 >= strategy.gain_pct * buy_price
                  THEN [should_sell |-> TRUE, reason |-> TakeProfit]
             ELSE IF (current_price.num - buy_price) * 10000 <= (-strategy.loss_pct) * buy_price
                  THEN [should_sell |-> TRUE, reason |-> StopLoss]
             ELSE [should_sell |-> FALSE, reason |-> ""]

\* check_sell_signal that takes profit only above the threshold.
CheckSellSignalStrictGain(strategy, kd, date, buy_price, buy_date) ==
    IF kd.daily = None THEN [should_sell |-> FALSE, reason |-> ""]
    ELSE LET current_price == GetClosePrice(kd.daily, date, 0)
         IN  IF current_price = None THEN [should_sell |-> FALSE, reason |-> ""]
             ELSE IF (current_price.num - buy_price) * 10000 > strategy.gain_pct * buy_price
                  THEN [should_sell |-> TRUE, reason |-> TakeProfit]
             ELSE IF (current_price.num - buy_price) * 10000 <= (-strategy.loss_pct) * buy_price
                  THEN [should_sell |-> TRUE, reason |-> StopLoss]
             ELSE IF date - buy_date >= strategy.hold_period
                  THEN [should_sell |-> TRUE, reason |-> Expired]
             ELSE [should_sell |-> FALSE, reason |-> ""]

\* check_sell_signal whose holding period ends a day early.
CheckSellSignalEarlyExpiry(strategy, kd, date, buy_price, buy_date) ==
    IF kd.daily = None THEN [should_sell |-> FALSE, reason |-> ""]
    ELSE LET current_price == GetClosePrice(kd.daily, date, 0)
         IN  IF current_price = None THEN [should_sell |-> FALSE, reason |-> ""]
             ELSE IF (current_price.num - buy_price) * 10000 >= strategy.gain_pct * buy_price
                  THEN [should_sell |-> TRUE, reason |-> TakeProfit]
             ELSE IF (current_price.num - buy_price) * 10000 <= (-strategy.loss_pct) * buy_price
                  THEN [should_sell |-> TRUE, reason |-> StopLoss]
             ELSE IF date - buy_date >= strategy.hold_period - 1
                  THEN [should_sell |-> TRUE, reason |-> Expired]
             ELSE [should_sell |-> FALSE, reason |-> ""]

\* TradingStrategy.check_sell_signal.  The division by buy_price is replaced
\* by a multiplication, which is the same test for the positive buy prices a
\* position can have.
CheckSellSignal(strategy, kd, date, buy_price, buy_date) ==
    IF kd.daily = None THEN [should_sell |-> FALSE, reason |-> ""]
    ELSE LET current_price == GetClosePrice(kd.daily, date, 0)
         IN  IF current_price = None THEN [should_sell |-> FALSE, reason |-> ""]
             ELSE IF (current_price.num - buy_price) * 10000 >= strategy.gain_pct * buy_price
                  THEN [should_sell |-> TRUE, reason |-> TakeProfit]
             ELSE IF (current_price.num - buy_price) * 10000 <= (-strategy.loss_pct) * buy_price
                  THEN [should_sell |-> TRUE, reason |-> StopLoss]
             ELSE IF date - buy_date >= strategy.hold_period
                  THEN [should_sell |-> TRUE, reason |-> Expired]
             ELSE [should_sell |-> FALSE, reason |-> ""]

\* TradingStrategy.get_current_price
GetCurrentPrice(kd, date) ==
    IF kd.daily = None THEN None ELSE GetClosePrice(kd.daily, date, 0)

\* evaluate_strategy(stock_code, stock_name, date, kline_data, config, position)
EvaluateStrategy(stock_code, stock_name, date, kd, config, position) ==
    LET strategy == TradingStrategy(config)
        result == [action |-> "None", stock_code |-> stock_code,
                   stock_name |-> stock_name, date |-> date,
                   price |-> GetCurrentPrice(kd, date), reason |-> "None"]
    IN  IF position = None
        THEN IF CheckBuySignal(strategy, kd, date, FALSE)
             THEN [result EXCEPT !.action = "buy"]
             ELSE result
        ELSE LET s == CheckSellSignal(strategy, kd, date,
                                      position.buy_price, position.buy_date)
             IN  IF s.should_sell
                 THEN [action |-> "sell", stock_code |-> stock_code,
                       stock_name |-> stock_name, date |-> date,
                       price |-> result.price, reason |-> s.reason,
                       buy_price |-> position.buy_price,
                       buy_date |-> position.buy_date,
                       hold_days |-> date - position.buy_date]
                 ELSE result

(***************************************************************************)
(* BacktestEngine (backtest.py:20-220)                                     *)
(*                                                                         *)
(* The engine is [trades, current_position, capital].                      *)
(***************************************************************************)
\* self.initial_capital (1000000 yuan), in units of 0.001.
initial_capital == 1000000 * 1000

\* int(x / y) for x >= 0: truncation toward zero.
IntDiv(x, y) == IF y > 0 THEN x \div y ELSE -(x \div (-y))

\* round(n / d) to the nearest integer, ties to even (d > 0).
RoundDiv(n, d) ==
    LET q == n \div d
        r == n - q * d
    IN  IF 2 * r < d THEN q
        ELSE IF 2 * r > d THEN q + 1
        ELSE IF q % 2 = 0 THEN q ELSE q + 1

\* round(v, 2) of an amount in units of 0.001.
Round2(v) == RoundDiv(v, 10) * 10

\* date.strftime('%Y-%m-%d')
Strftime(d) == [ymd |-> d]

\* _execute_buy raises at backtest.py:118: the division by a price of 0 raises
\* ZeroDivisionError for a Python float, and for a numpy float gives an
\* infinite (or undefined) quotient of which int() raises.
ExecuteBuyRaises(eng, price) == eng.current_position = None /\ price = 0

\* _execute_buy without its first guard (a division that raises leaves the
\* engine as it is).
ExecuteBuyUnguarded(eng, stock_code, stock_name, date, price) ==
    IF price = 0 THEN eng
    ELSE LET shares == IntDiv(eng.capital, price * 100) * 100
             cost == shares * price
         IN  IF shares <= 0 THEN eng
             ELSE [eng EXCEPT !.capital = eng.capital - cost,
                              !.current_position =
                                 [stock_code |-> stock_code, stock_name |-> stock_name,
                                  buy_date |-> date, buy_price |-> price,
                                  shares |-> shares, cost |-> cost]]

\* _execute_buy that buys one lot more than the capital pays for.
ExecuteBuyOneLotMore(eng, stock_code, stock_name, date, price) ==
    IF eng.current_position # None \/ price = 0 THEN eng
    ELSE LET shares == IntDiv(eng.capital, price * 100) * 100 + 100
             cost == shares * price
         IN  [eng EXCEPT !.capital = eng.capital - cost,
                         !.current_position =
                            [stock_code |-> stock_code, stock_name |-> stock_name,
                             buy_date |-> date, buy_price |-> price,
                             shares |-> shares, cost |-> cost]]

\* _execute_buy that buys one lot when the capital pays for none.
ExecuteBuyOnCredit(eng, stock_code, stock_name, date, price) ==
    IF eng.current_position # None \/ price = 0 THEN eng
    ELSE LET lots == IntDiv(eng.capital, price * 100) * 100
             shares == IF lots <= 0 THEN 100 ELSE lots
             cost == shares * price
         IN  [eng EXCEPT !.capital = eng.capital - cost,
                         !.current_position =
                            [stock_code |-> stock_code, stock_name |-> stock_name,
                             buy_date |-> date, buy_price |-> price,
                             shares |-> shares, cost |-> cost]]

\* _execute_buy that leaves the capital as it is.
ExecuteBuyFree(eng, stock_code, stock_name, date, price) ==
    IF eng.current_position # None \/ price = 0 THEN eng
    ELSE LET shares == IntDiv(eng.capital, price * 100) * 100
             cost == shares * price
         IN  IF shares <= 0 THEN eng
             ELSE [eng EXCEPT !.current_position =
                                 [stock_code |-> stock_code, stock_name |-> stock_name,
                                  buy_date |-> date, buy_price |-> price,
                                  shares |-> shares, cost |-> cost]]

\* _execute_buy(stock_code, stock_name, date, price), price # 0
ExecuteBuy(eng, stock_code, stock_name, date, price) ==
    IF eng.current_position # None THEN eng
    ELSE LET shares == IntDiv(eng.capital, price * 100) * 100
             cost == shares * price
         IN  IF shares <= 0 THEN eng
             ELSE [eng EXCEPT !.capital = eng.capital - cost,
                              !.current_position =
                                 [stock_code |-> stock_code, stock_name |-> stock_name,
                                  buy_date |-> date, buy_price |-> price,
                                  shares |-> shares, cost |-> cost]]

\* _execute_sell with the revenue left out of the capital update.
ExecuteSellKeepsCost(eng, date, price, reason) ==
    IF eng.current_position = None THEN eng
    ELSE LET pos == eng.current_position
             revenue == pos.shares * price
             profit == revenue - pos.cost
         IN  [trades |-> Append(eng.trades,
                 [trade_id |-> Len(eng.trades) + 1,
                  stock_code |-> pos.stock_code, stock_name |-> pos.stock_name,
                  buy_date |-> Strftime(pos.buy_date),
                  buy_price |-> Round2(pos.buy_price),
                  sell_date |-> Strftime(date), sell_price |-> Round2(price),
                  shares |-> pos.shares, profit |-> Round2(profit),
                  profit_pct |-> RoundDiv((price - pos.buy_price) * 10000, pos.buy_price),
                  sell_reason |-> reason, hold_days |-> date - pos.buy_date]),
              capital |-> eng.capital + pos.cost,
              current_position |-> None]

\* _execute_sell that records its trade twice.
ExecuteSellRecordsTwice(eng, date, price, reason) ==
    IF eng.current_position = None THEN eng
    ELSE LET pos == eng.current_position
             revenue == pos.shares * price
             profit == revenue - pos.cost
             trade == [trade_id |-> Len(eng.trades) + 1,
                       stock_code |-> pos.stock_code, stock_name |-> pos.stock_name,
                       buy_date |-> Strftime(pos.buy_date),
                       buy_price |-> Round2(pos.buy_price),
                       sell_date |-> Strftime(date), sell_price |-> Round2(price),
                       shares |-> pos.shares, profit |-> Round2(profit),
                       profit_pct |-> RoundDiv((price - pos.buy_price) * 10000, pos.buy_price),
                       sell_reason |-> reason, hold_days |-> date - pos.buy_date]
         IN  [trades |-> eng.trades \o <<trade, trade>>,
              capital |-> eng.capital + revenue,
              current_position |-> None]

\* _execute_sell that puts its trade at the head of the list.
ExecuteSellPrepends(eng, date, price, reason) ==
    IF eng.current_position = None THEN eng
    ELSE LET pos == eng.current_position
             revenue == pos.shares * price
             profit == revenue - pos.cost
         IN  [trades |-> <<[trade_id |-> Len(eng.trades) + 1,
                            stock_code |-> pos.stock_code, stock_name |-> pos.stock_name,
                            buy_date |-> Strftime(pos.buy_date),
                            buy_price |-> Round2(pos.buy_price),
                            sell_date |-> Strftime(date), sell_price |-> Round2(price),
                            shares |-> pos.shares, profit |-> Round2(profit),
                            profit_pct |-> RoundDiv((price - pos.buy_price) * 10000,
                                                    pos.buy_price),
                            sell_reason |-> reason, hold_days |-> date - pos.buy_date]>>
                         \o eng.trades,
              capital |-> eng.capital + revenue,
              current_position |-> None]

\* _execute_sell(date, price, reason)
ExecuteSell(eng, date, price, reason) ==
    IF eng.current_position = None THEN eng
    ELSE LET pos == eng.current_position
             revenue == pos.shares * price
             profit == revenue - pos.cost
         IN  [trades |-> Append(eng.trades,
                 [trade_id |-> Len(eng.trades) + 1,
                  stock_code |-> pos.stock_code, stock_name |-> pos.stock_name,
                  buy_date |-> Strftime(pos.buy_date),
                  buy_price |-> Round2(pos.buy_price),
                  sell_date |-> Strftime(date), sell_price |-> Round2(price),
                  shares |-> pos.shares, profit |-> Round2(profit),
                  profit_pct |-> RoundDiv((price - pos.buy_price) * 10000, pos.buy_price),
                  sell_reason |-> reason, hold_days |-> date - pos.buy_date]),
              capital |-> eng.capital + revenue,
              current_position |-> None]

\* _generate_empty_result(stock_code, stock_name)
GenerateEmptyResult(stock_code, stock_name) ==
    [stock_code |-> stock_code, stock_name |-> stock_name, trades |-> <<>>,
     statistics |-> [total_trades |-> 0, win_count |-> 0, loss_count |-> 0,
                     win_rate |-> 0, total_return |-> 0, total_return_pct |-> 0,
                     avg_hold_days |-> 0]]

RECURSIVE SumField(_, _)
SumField(ts, f) == IF ts = <<>> THEN 0 ELSE ts[1][f] + SumField(Tail(ts), f)

\* _generate_statistics that counts as losses the trades with a negative profit.
GenerateStatisticsStrictLoss(eng, stock_code, stock_name) ==
    LET total_trades == Len(eng.trades)
        win_count == Cardinality({i \in 1..total_trades : eng.trades[i].profit > 0})
        loss_count == Cardinality({i \in 1..total_trades : eng.trades[i].profit < 0})
    IN  IF total_trades = 0 THEN GenerateEmptyResult(stock_code, stock_name)
        ELSE [stock_code |-> stock_code, stock_name |-> stock_name,
              trades |-> eng.trades,
              statistics |->
                 [total_trades |-> total_trades,
                  win_count |-> win_count,
                  loss_count |-> loss_count,
                  win_rate |-> RoundDiv(win_count * 10000, total_trades),
                  total_return |-> Round2(SumField(eng.trades, "profit")),
                  total_return_pct |-> RoundDiv(eng.capital - initial_capital,
                                                initial_capital \div 10000),
                  final_capital |-> Round2(eng.capital),
                  avg_hold_days |-> RoundDiv(SumField(eng.trades, "hold_days") * 10,
                                             total_trades)]]

\* _generate_statistics(stock_code, stock_name): win_rate and total_return_pct
\* in units of 0.01 percent, avg_hold_days in tenths of a day.
GenerateStatistics(eng, stock_code, stock_name) ==
    LET total_trades == Len(eng.trades)
        win_count == Cardinality({i \in 1..total_trades : eng.trades[i].profit > 0})
        loss_count == Cardinality({i \in 1..total_trades : eng.trades[i].profit <= 0})
    IN  IF total_trades = 0 THEN GenerateEmptyResult(stock_code, stock_name)
        ELSE [stock_code |-> stock_code, stock_name |-> stock_name,
              trades |-> eng.trades,
              statistics |->
                 [total_trades |-> total_trades,
                  win_count |-> win_count,
                  loss_count |-> loss_count,
                  win_rate |-> RoundDiv(win_count * 10000, total_trades),
                  total_return |-> Round2(SumField(eng.trades, "profit")),
                  total_return_pct |-> RoundDiv(eng.capital - initial_capital,
                                                initial_capital \div 10000),
                  final_capital |-> Round2(eng.capital),
                  avg_hold_days |-> RoundDiv(SumField(eng.trades, "hold_days") * 10,
                                             total_trades)]]

\* ma_periods (backtest.py:53)
ma_periods == {5, 10, 20, 30, 60}

\* backtest.py:54-58: the moving averages are added to every series present.
WithMa(kd) ==
    [k \in DOMAIN kd |->
        IF k = "daily" THEN CalculateMa(kd[k], ma_periods)
        ELSE IF k \in {"weekly", "monthly"} /\ kd[k] # None THEN CalculateMa(kd[k], ma_periods)
        ELSE kd[k]]

\* The window that holds the whole series.
BacktestDataUnfiltered(config, daily_data, today) == daily_data.rows

\* backtest.py:60-71: the rows of the window.  `today` is the day of
\* datetime.now(), whose time of day is past midnight, so a bar dated exactly
\* backtest_year * 365 days before today lies before start_date.
BacktestData(config, daily_data, today) ==
    LET start_day == today - config.backtest_year * 365
        first_date == Min({daily_data.rows[i].date : i \in 1..Len(daily_data.rows)})
    IN  IF start_day < first_date THEN daily_data.rows
        ELSE SelectSeq(daily_data.rows, LAMBDA r : r.date > start_day)

\* current_kline_data (backtest.py:84-89)
CurrentKlineData(kd, current_date, stock_name) ==
    [daily |-> UpToDate(kd.daily, current_date),
     weekly |-> IF kd.weekly # None THEN UpToDate(kd.weekly, current_date) ELSE None,
     monthly |-> IF kd.monthly # None THEN UpToDate(kd.monthly, current_date) ELSE None,
     stock_name |-> stock_name]

\* backtest.py:96-100: the trade the signal asks for; `raised` when
\* _execute_buy raises.
ExecuteSignal(eng, stock_code, stock_name, current_date, sig) ==
    IF sig.action = "buy" /\ sig.price # None
    THEN IF ExecuteBuyRaises(eng, sig.price.num)
         THEN [signal |-> sig, raised |-> TRUE, eng |-> eng]
         ELSE [signal |-> sig, raised |-> FALSE,
               eng |-> ExecuteBuy(eng, stock_code, stock_name, current_date, sig.price.num)]
    ELSE IF sig.action = "sell" /\ sig.price # None
    THEN [signal |-> sig, raised |-> FALSE,
          eng |-> ExecuteSell(eng, current_date, sig.price.num, sig.reason)]
    ELSE [signal |-> sig, raised |-> FALSE, eng |-> eng]

\* A turn of the day loop that decides a second time after a sale.
LoopBodyDecidesAgain(eng, config, stock_code, kd, current_date) ==
    Only({IF first.signal.action = "sell" /\ first.eng.current_position = None
          THEN ExecuteSignal(first.eng, stock_code, kd.stock_name, current_date,
                             EvaluateStrategy(stock_code, kd.stock_name, current_date,
                                              CurrentKlineData(kd, current_date, kd.stock_name),
                                              config, first.eng.current_position))
          ELSE first :
          first \in {ExecuteSignal(eng, stock_code, kd.stock_name, current_date,
                        EvaluateStrategy(stock_code, kd.stock_name, current_date,
                                         CurrentKlineData(kd, current_date, kd.stock_name),
                                         config, eng.current_position))}})

\* One turn of the day loop (backtest.py:77-100): the signal, whether the turn
\* raised, and the engine afterwards.
LoopBody(eng, config, stock_code, kd, current_date) ==
    ExecuteSignal(eng, stock_code, kd.stock_name, current_date,
                  EvaluateStrategy(stock_code, kd.stock_name, current_date,
                                   CurrentKlineData(kd, current_date, kd.stock_name),
                                   config, eng.current_position))

\* The end of the run without the forced close.
NoForcedClose(eng, kd, rows) == eng

\* The forced close recorded under the reason of the holding period.
ForcedCloseAsExpired(eng, kd, rows) ==
    IF eng.current_position # None
    THEN LET last_date == rows[Len(rows)].date
             last_price == GetClosePrice(kd.daily, last_date, 0)
         IN  IF last_price # None
             THEN ExecuteSell(eng, last_date, last_price.num, Expired)
             ELSE eng
    ELSE eng

\* backtest.py:102-107: the position still open after the loop is closed at the
\* last close.
ForcedClose(eng, kd, rows) ==
    IF eng.current_position # None
    THEN LET last_date == rows[Len(rows)].date
             last_price == GetClosePrice(kd.daily, last_date, 0)
         IN  IF last_price # None
             THEN ExecuteSell(eng, last_date, last_price.num, BacktestEnd)
             ELSE eng
    ELSE eng

Engine == [trades |-> trades, current_position |-> current_position, capital |-> capital]

(***************************************************************************)
(* Rule texts: how the inputs of the checks are written down               *)
(***************************************************************************)
\* A moving-average term: granularity g, period p, lookback off (-1: none written).
Term(g, p, off) == [g |-> g, p |-> p, off |-> off]

TermText(t) ==
    <<t.g>> \o IntToChars(t.p) \o <<"M", "A">>
    \o (IF t.off < 0 THEN <<>> ELSE <<"-">> \o IntToChars(t.off))

Sp == <<" ">>

\* a op b, written with single blanks.
CmpText(a, op, b) == a \o Sp \o op \o Sp \o b

Paren(x) == <<"(">> \o x \o <<")">>

\* (x) * n, with blank text `gap` on both sides of the star.
RepText(x, gap, n) == Paren(x) \o gap \o <<"*">> \o gap \o IntToChars(n)

AndText(x, y) == x \o <<" ", "&", "&", " ">> \o y

OrText(x, y) == x \o <<" ", "|", "|", " ">> \o y

NotText(x) == <<"!">> \o x

OpGT == <<">">>
OpLT == <<"<">>
OpGE == <<">", "=">>
OpLE == <<"<", "=">>
OpEQ == <<"=", "=">>
OpNE == <<"!", "=">>

D1 == TermText(Term("D", 1, -1))
D2 == TermText(Term("D", 2, -1))
W1 == TermText(Term("W", 1, -1))
D5 == TermText(Term("D", 5, -1))
D10 == TermText(Term("D", 10, -1))
D30 == TermText(Term("D", 30, -1))
W5 == TermText(Term("W", 5, -1))
W10 == TermText(Term("W", 10, -1))

\* The weekly frame of a daily frame: one bar for every second daily bar.
WeeklyFrame(daily) ==
    Frame(SelectSeq(daily.rows, LAMBDA r : r.date % 2 = 0))

(***************************************************************************)
(* config.py: DEFAULT_CONFIG, load_config, save_config, _deep_merge        *)
(*                                                                         *)
(* A dict object that lives on after a call is an entry of a heap, and a   *)
(* value that refers to it is Ref(its name): two dicts that hold the same  *)
(* Ref share the object.  A dict read from JSON is the value Dict(f).      *)
(***************************************************************************)
Ref(o) == [ref |-> o]
Str(s) == [str |-> s]
Bool(b) == [bool |-> b]
Dict(f) == [dict |-> f]

IsRef(v) == DOMAIN v = {"ref"}
IsJsonDict(v) == DOMAIN v = {"dict"}

\* The module as imported (config.py:14-29): DEFAULT_CONFIG and the three
\* dicts nested in it.  GAIN and LOSS in units of 0.01 percent.
ImportedConfig ==
    [o \in {"DEFAULT_CONFIG", "kline_strategy", "trade_strategy", "SELL"} |->
        IF o = "DEFAULT_CONFIG"
        THEN [save_offline_data |-> Bool(TRUE),
              target_stock_code |-> Str("000001"),
              backtest_year |-> Num(3),
              kline_strategy |-> Ref("kline_strategy"),
              trade_strategy |-> Ref("trade_strategy")]
        ELSE IF o = "kline_strategy"
        THEN [buy |-> Str("(D5MA > D10MA) && (D10MA > D30MA)")]
        ELSE IF o = "trade_strategy"
        THEN [BUYS |-> Str("DK < -2%"), SELL |-> Ref("SELL")]
        ELSE [GAIN |-> Num(500), LOSS |-> Num(1000), PERIOD |-> Num(60)]]

\* What a value holds when every reference is followed: the nested dicts as
\* json.dump writes them and as a reader of the dict sees them.
RECURSIVE Deref(_, _)
Deref(heap, v) ==
    IF IsRef(v) THEN Dict([k \in DOMAIN heap[v.ref] |-> Deref(heap, heap[v.ref][k])])
    ELSE IF IsJsonDict(v) THEN Dict([k \in DOMAIN v.dict |-> Deref(heap, v.dict[k])])
    ELSE v

\* d[key] = value
SetItem(d, key, value) ==
    [k \in DOMAIN d \cup {key} |-> IF k = key THEN value ELSE d[k]]

\* dict.copy(): a new dict with the same keys and the same values, so that a
\* nested dict is shared with the original.
ShallowCopy(d) == d

\* _deep_merge (config.py:85-97) of `override` into a dict that nothing else
\* refers to.
RECURSIVE MergeValue(_, _, _)
MergeValue(f, override, keys) ==
    IF keys = {} THEN f
    ELSE LET key == CHOOSE k \in keys : TRUE
             value == override[key]
         IN  MergeValue(
                 IF key \in DOMAIN f /\ IsJsonDict(f[key]) /\ IsJsonDict(value)
                 THEN SetItem(f, key, Dict(MergeValue(f[key].dict, value.dict,
                                                      DOMAIN value.dict)))
                 ELSE SetItem(f, key, value),
                 override, keys \ {key})

\* _deep_merge(base, override) (config.py:85-97), base being the heap's dict
\* `base`: the heap afterwards.  A key whose values are dicts on both sides is
\* merged into the dict base[key] itself; any other key is assigned.
RECURSIVE DeepMerge(_, _, _, _)
DeepMerge(heap, base, override, keys) ==
    IF keys = {} THEN heap
    ELSE LET key == CHOOSE k \in keys : TRUE
             value == override[key]
             old == IF key \in DOMAIN heap[base] THEN heap[base][key] ELSE None
         IN  DeepMerge(
                 IF IsRef(old) /\ IsJsonDict(value)
                 THEN DeepMerge(heap, old.ref, value.dict, DOMAIN value.dict)
                 ELSE IF IsJsonDict(old) /\ IsJsonDict(value)
                 THEN [heap EXCEPT ![base] =
                          SetItem(heap[base], key,
                                  Dict(MergeValue(old.dict, value.dict, DOMAIN value.dict)))]
                 ELSE [heap EXCEPT ![base] = SetItem(heap[base], key, value)],
                 base, override, keys \ {key})

\* merged_config = DEFAULT_CONFIG.copy(); _deep_merge(merged_config, config)
\* (config.py:50-51): the heap afterwards, the copy in it as "merged_config".
MergeIntoCopy(heap, config) ==
    DeepMerge([o \in DOMAIN heap \cup {"merged_config"} |->
                  IF o = "merged_config" THEN ShallowCopy(heap["DEFAULT_CONFIG"])
                  ELSE heap[o]],
              "merged_config", config, DOMAIN config)

\* The heap without the dict of the call that ended.
Module(heap) == [o \in DOMAIN heap \ {"merged_config"} |-> heap[o]]

\* The text of a file that json.load rejects.
InvalidJson == [invalid |-> TRUE]

\* json.dump(config, f): the nested dicts written out.
JsonDump(heap, o) == Deref(heap, Ref(o))

\* The files a user writes to the configuration path: an empty object, a
\* top-level key, nested keys of the two strategies, a number in the place of
\* the SELL dict, and a text that is not JSON.
UserFiles ==
    {Dict(<<>>),
     Dict([target_stock_code |-> Str("600000")]),
     Dict([kline_strategy |-> Dict([buy |-> Str("D5MA > D10MA")])]),
     Dict([trade_strategy |-> Dict([SELL |-> Dict([GAIN |-> Num(800)])])]),
     Dict([trade_strategy |-> Dict([BUYS |-> Str(""), SELL |-> Dict([LOSS |-> Num(300)])])]),
     Dict([trade_strategy |-> Dict([SELL |-> Num(5)])]),
     InvalidJson}

\* No call of load_config has been made and no configuration file exists.
ConfigAsImported ==
    /\ DEFAULT_CONFIG = ImportedConfig
    /\ config_file = None

\* The variables of the replay, and their values while no replay runs.
engine_vars == <<kline_data, backtest_data, idx, trades, current_position, capital,
                 signal, twin>>

EngineIdle ==
    /\ kline_data = None
    /\ backtest_data = <<>>
    /\ idx = 0
    /\ trades = <<>>
    /\ current_position = None
    /\ capital = initial_capital
    /\ signal = None
    /\ twin = None

(***************************************************************************)
(* SpecExpand: expand_repeat_expression run pass by pass                   *)
(***************************************************************************)
\* The largest repetition count of the generated inputs.
MaxRepeat == 3

ExpandTerms == {Term(g, p, off) : g \in {"D", "W"}, p \in {5, 30}, off \in {-1, 0, 2}}

\* (t1 op t2) * n
RepCases ==
    {[kind |-> "rep", t1 |-> t1, op |-> op, t2 |-> t2, gap |-> gap, n |-> n] :
        t1 \in ExpandTerms, t2 \in {t \in ExpandTerms : t.g = "D"},
        op \in {OpGT, OpLE}, gap \in {<<>>, Sp}, n \in 0..MaxRepeat}

RepCaseText(c) == RepText(CmpText(TermText(c.t1), c.op, TermText(c.t2)), c.gap, c.n)

\* Other shapes: no repetition, the two texts of the module's demo
\* (strategy.py:362, 368), a chained count, a repetition inside a conjunction,
\* a body with parentheses, a repetition of a repetition, and a body that
\* holds a repetition with a count of 0.
OtherCases ==
    {[kind |-> "plain", text |-> <<>>],
     [kind |-> "plain", text |-> CmpText(D5, OpGT, D10)],
     [kind |-> "plain", text |-> AndText(Paren(CmpText(D5, OpGT, D10)), Paren(CmpText(D10, OpGT, D30)))],
     [kind |-> "flat", text |-> RepText(CmpText(D5, OpGT, D30), Sp, 3)],
     [kind |-> "flat", text |-> AndText(Paren(RepText(CmpText(D5, OpGT, D10), Sp, 2)), Paren(CmpText(W5, OpGT, W10)))],
     [kind |-> "flat", text |-> RepText(CmpText(D5, OpGT, D30), Sp, 2) \o <<" ", "*", " ", "2">>],
     [kind |-> "flat", text |-> OrText(RepText(CmpText(D5, OpGT, D10), <<>>, 2), RepText(CmpText(W5, OpLT, W10), Sp, 2))],
     [kind |-> "nested", text |-> RepText(AndText(Paren(CmpText(D5, OpGT, D10)), Paren(CmpText(D10, OpGT, D30))), Sp, 2)],
     [kind |-> "nested", text |-> RepText(RepText(CmpText(D5, OpGT, D10), Sp, 2), Sp, 2)],
     [kind |-> "zero", text |-> RepText(RepText(CmpText(D5, OpGT, D10), Sp, 0) \o Sp
                                         \o CmpText(D5, OpGT, D30), Sp, 2)]}

CaseText(c) == IF c.kind = "rep" THEN RepCaseText(c) ELSE c.text

ExpandInit ==
    /\ pc = "expand"
    /\ \E c \in RepCases \cup OtherCases :
          /\ call = c
          /\ expression = CaseText(c)
    /\ prev_expression = None
    /\ ret = None
    /\ EngineIdle
    /\ stock_codes = <<>>
    /\ results = <<>>
    /\ ConfigAsImported

\* One turn of the while loop (strategy.py:71-73).
ExpandPass ==
    /\ pc = "expand"
    /\ ~LoopDone(prev_expression, expression)
    /\ prev_expression' = [text |-> expression]
    /\ expression' = RepeatSub(expression, 1)
    /\ UNCHANGED <<pc, call, ret>>
    /\ UNCHANGED engine_vars
    /\ UNCHANGED batch_vars
    /\ UNCHANGED config_vars

\* The loop ends and the text is returned (strategy.py:71, 75).
ExpandReturn ==
    /\ pc = "expand"
    /\ LoopDone(prev_expression, expression)
    /\ pc' = "done"
    /\ ret' = [text |-> expression]
    /\ UNCHANGED <<call, expression, prev_expression>>
    /\ UNCHANGED engine_vars
    /\ UNCHANGED batch_vars
    /\ UNCHANGED config_vars

ExpandNext == ExpandPass \/ ExpandReturn

SpecExpand == ExpandInit /\ [][ExpandNext]_vars

\* The call runs to its end: the interpreter takes the next turn of the loop,
\* or the return, as long as one is there to take.
SpecExpandFair == SpecExpand /\ WF_vars(ExpandNext)

(***************************************************************************)
(* SpecStrategy: evaluate_kline_strategy and evaluate_trade_buy_condition  *)
(* applied to generated rule texts, series and dates                       *)
(***************************************************************************)
\* The longest series of the generated inputs.
MaxRows == 3

\* Closes 10.00 and 11.00; the provider's percentage change of such a bar.
StrategyCloses == {10000, 11000}

StrategyPct(c) == IF c = 10000 THEN -250 ELSE 100

\* A frame of the given closes, one bar a day from day 1 on, with the
\* provider's pct_change column or without it.
StrategyFrame(closes, col) ==
    Frame([i \in 1..Len(closes) |->
            Row(i, closes[i], IF col THEN Num(StrategyPct(closes[i])) ELSE NoColumn)])

StrategyFrames(cols) ==
    UNION {{StrategyFrame(q, col) : q \in [1..n -> StrategyCloses], col \in cols} :
            n \in 0..MaxRows}

\* The series dictionary: daily as given; weekly absent, None, or every second
\* daily bar; monthly None where weekly is None, as in the dictionary of
\* get_stock_data when nothing was fetched (data.py:245-250), and else absent.
StrategyData(daily, weekly) ==
    IF weekly = "absent" THEN [daily |-> daily]
    ELSE IF weekly = "none" THEN [daily |-> daily, weekly |-> None, monthly |-> None]
    ELSE IF daily = None THEN [daily |-> daily, weekly |-> None]
    ELSE [daily |-> daily, weekly |-> WeeklyFrame(daily)]

D1m1 == Term("D", 1, 1)
D2m1 == Term("D", 2, 1)

\* The K-line rule texts, by the way they are built.
KlineCases ==
    {[kind |-> "cmp", t1 |-> t1, op |-> op, t2 |-> t2, n |-> 1] :
        t1 \in {Term("D", 1, -1), Term("D", 2, -1), Term("W", 1, -1), D1m1},
        t2 \in {Term("D", 2, -1), D1m1, D2m1, Term("D", 5, -1)},
        op \in {OpGT, OpLE}}
    \cup
    {[kind |-> "rep", t1 |-> t1, op |-> op, t2 |-> t2, n |-> n] :
        t1 \in {Term("D", 1, -1)},
        t2 \in {Term("D", 1, -1), Term("D", 2, -1), D2m1},
        op \in {OpGT, OpLE}, n \in 1..MaxRepeat}
    \cup
    {[kind |-> k, t1 |-> Term("D", 1, -1), op |-> op, t2 |-> t2, n |-> 1] :
        k \in {"or", "and"}, op \in {OpGE, OpGT},
        t2 \in {D2m1, Term("D", 5, -1), Term("W", 1, -1), Term("D", 2, -1)}}
    \cup
    {[kind |-> "not", t1 |-> Term("D", 1, -1), op |-> OpGT, t2 |-> t2, n |-> 1] :
        t2 \in {D2m1, Term("D", 5, -1), Term("W", 1, -1), Term("D", 2, -1)}}
    \cup
    {[kind |-> "ops", t1 |-> t1, op |-> op, t2 |-> t2, n |-> 1] :
        t1 \in {Term("D", 1, -1), Term("W", 1, -1), Term("M", 1, -1)},
        t2 \in {Term("D", 2, -1)}, op \in CompOps}
    \cup
    {[kind |-> "blank", text |-> t] : t \in {<<>>, Sp, Sp \o Sp}}
    \cup
    {[kind |-> "malformed", text |-> t] :
        t \in {D1 \o Sp \o OpGT,
               D1 \o Sp \o OpGT \o Sp \o OpGT \o Sp \o D2,
               <<"(">> \o CmpText(D1, OpGT, D2),
               CmpText(D1, OpGT, D2) \o <<")">>,
               D1 \o Sp \o D2,
               <<"&", "&", " ">> \o CmpText(D1, OpGT, D2)}}

\* The text of a K-line case:
\*   cmp  t1 op t2            rep  (t1 op t2) * n
\*   ops  t1 op t2, for each of the six comparison operators
\*   or   (D1MA op D1MA) || (D1MA > t2)
\*   and  (D1MA op D1MA) && (D1MA > t2)
\*   not  !(D1MA > t2)
KlineText(c) ==
    IF c.kind \in {"cmp", "ops"} THEN CmpText(TermText(c.t1), c.op, TermText(c.t2))
    ELSE IF c.kind = "rep"
    THEN RepText(CmpText(TermText(c.t1), c.op, TermText(c.t2)), Sp, c.n)
    ELSE IF c.kind = "or"
    THEN OrText(Paren(CmpText(D1, c.op, D1)), Paren(CmpText(D1, OpGT, TermText(c.t2))))
    ELSE IF c.kind = "and"
    THEN AndText(Paren(CmpText(D1, c.op, D1)), Paren(CmpText(D1, OpGT, TermText(c.t2))))
    ELSE IF c.kind = "not"
    THEN NotText(Paren(CmpText(D1, OpGT, TermText(c.t2))))
    ELSE c.text

\* A threshold as written and as the ratio n / d percent.
GateValues ==
    {[text |-> <<"-", "2", ".", "5">>, n |-> -25, d |-> 10],
     [text |-> <<"1">>, n |-> 1, d |-> 1],
     [text |-> <<"1", "0">>, n |-> 10, d |-> 1]}

\* The gate texts: <g>K <op> <value>%, spaced and with the percent sign or
\* tight and without it; texts that are no gate; and operators the pattern
\* accepts but evaluate_comparison does not know.
GateCases ==
    {[kind |-> "gate", g |-> "D", op |-> op, value |-> v, tight |-> tight] :
        op \in CompOps, v \in GateValues, tight \in BOOLEAN}
    \cup
    {[kind |-> "gate", g |-> g, op |-> op, value |-> v, tight |-> FALSE] :
        g \in {"W", "M"}, op \in {OpLT, OpGE}, v \in {x \in GateValues : x.n = 1}}
    \cup
    {[kind |-> "nogate", text |-> t] :
        t \in {<<>>, Sp, <<"h", "e", "l", "l", "o">>, <<"K", " ", "<", " ", "2", "%">>,
               <<"D", "K", " ", "<", " ", ".", "5", "%">>, <<"D", "K", " ", ">">>,
               <<"D", "K", " ", "2", "%">>}}
    \cup
    {[kind |-> "unknown_op", g |-> "D", op |-> op, value |-> v, tight |-> FALSE] :
        op \in {<<"=">>, <<"<", ">">>, <<"=", ">">>}, v \in {x \in GateValues : x.n = 1}}

GateText(c) ==
    IF c.kind = "nogate" THEN c.text
    ELSE IF c.tight THEN <<c.g, "K">> \o c.op \o c.value.text
    ELSE <<c.g, "K">> \o Sp \o c.op \o Sp \o c.value.text \o <<"%">>

\* The simulation dates: before every bar, on the last bar, and on the bar
\* before it (so that the series holds a bar after the date).
StrategyDates == {0, MaxRows - 1, MaxRows}

StrategyInit ==
    /\ pc = "call"
    /\ \/ \E c \in KlineCases, d \in {None} \cup StrategyFrames({TRUE}),
             w \in {"absent", "none", "frame"}, date \in StrategyDates :
             call = [fn |-> "evaluate_kline_strategy", case |-> c,
                     expression |-> KlineText(c),
                     kline_data |-> WithMa(StrategyData(d, w)), date |-> date]
       \/ \E c \in GateCases, d \in {None} \cup StrategyFrames(BOOLEAN),
             w \in {"absent", "none", "frame"}, date \in StrategyDates :
             call = [fn |-> "evaluate_trade_buy_condition", case |-> c,
                     expression |-> GateText(c),
                     kline_data |-> StrategyData(d, w), date |-> date]
    /\ ret = None
    /\ expression = <<>>
    /\ prev_expression = None
    /\ EngineIdle
    /\ stock_codes = <<>>
    /\ results = <<>>
    /\ ConfigAsImported

\* evaluate_kline_strategy(expression, kline_data, date)
CallEvaluateKlineStrategy ==
    /\ pc = "call"
    /\ call.fn = "evaluate_kline_strategy"
    /\ ret' = [value |-> EvaluateKlineStrategy(call.expression, call.kline_data, call.date)]
    /\ pc' = "done"
    /\ UNCHANGED <<call, expression, prev_expression>>
    /\ UNCHANGED engine_vars
    /\ UNCHANGED batch_vars
    /\ UNCHANGED config_vars

\* evaluate_trade_buy_condition(expression, kline_data, date)
CallEvaluateTradeBuyCondition ==
    /\ pc = "call"
    /\ call.fn = "evaluate_trade_buy_condition"
    /\ ret' = [value |-> EvaluateTradeBuyCondition(call.expression, call.kline_data, call.date)]
    /\ pc' = "done"
    /\ UNCHANGED <<call, expression, prev_expression>>
    /\ UNCHANGED engine_vars
    /\ UNCHANGED batch_vars
    /\ UNCHANGED config_vars

StrategyNext == CallEvaluateKlineStrategy \/ CallEvaluateTradeBuyCondition

SpecStrategy == StrategyInit /\ [][StrategyNext]_vars

(***************************************************************************)
(* Spec: BacktestEngine.run_backtest replayed day by day                   *)
(***************************************************************************)
\* The longest daily series of the generated inputs.
MaxBars == 3

\* Closes in units of 0.001: 9.50, 10.00, 10.50, and a bar whose close is 0.
BarCloses == {0, 9500, 10000, 10500}

\* The provider's percentage change of a bar, in units of 0.01 percent.
PctOfClose(c) ==
    IF c = 9500 THEN -250 ELSE IF c = 10000 THEN 100 ELSE IF c = 10500 THEN 300 ELSE -1000

\* A daily frame of the given closes, one bar a day from day 1 on.
DailyFrame(closes) ==
    Frame([i \in 1..Len(closes) |-> Row(i, closes[i], Num(PctOfClose(closes[i])))])

Text_DK_lt_m2 == <<"D", "K", " ", "<", " ", "-", "2", "%">>
Text_WK_gt_05 == <<"W", "K", " ", ">", " ", "0", ".", "5", "%">>

Config(buy, buys, gain, loss, period) ==
    [backtest_year |-> 1,
     target_stock_code |-> "000001",
     kline_strategy |-> [buy |-> buy],
     trade_strategy |-> [BUYS |-> buys,
                         SELL |-> [GAIN |-> gain, LOSS |-> loss, PERIOD |-> period]]]

\* The configurations replayed: the texts of DEFAULT_CONFIG (config.py:14-29)
\* with its sell rules, and rules that trade on series as short as MaxBars.
RunConfigs ==
    {Config(AndText(Paren(CmpText(D5, OpGT, D10)), Paren(CmpText(D10, OpGT, D30))),
            Text_DK_lt_m2, 500, 1000, 60),
     Config(<<>>, <<>>, 500, 1000, 60),
     Config(<<>>, <<>>, 500, 500, 2),
     Config(<<>>, <<>>, 0, 500, 2),
     Config(<<>>, Text_DK_lt_m2, 500, 500, 60),
     Config(CmpText(D1, OpGT, D2), <<>>, 2000, 500, 2),
     Config(RepText(CmpText(D1, OpLE, D2), Sp, 2), <<>>, 2000, 2000, 1),
     Config(CmpText(W1, OpGE, D1), Text_WK_gt_05, 500, 1000, 1),
     Config(<<"D", "1", "M", "A", " ", ">">>, <<>>, 500, 1000, 60)}

\* The day of datetime.now(): the window holds every bar, every bar after
\* day 1, or no bar.
Todays == {365, 366, 465}

\* Two bars thirty calendar days apart: a close of 10.00 on day 1 and of 10.50
\* on day 31.
ScenarioFrame ==
    Frame(<<Row(1, 10000, Num(PctOfClose(10000))), Row(31, 10500, Num(PctOfClose(10500)))>>)

\* Five daily bars that rise, stay, fall and recover: with no buy rule and
\* sell thresholds of 5 percent they give a winning trade, a losing one and a
\* third closed at its buy price.
ThreeTradesFrame == DailyFrame(<<9500, 10500, 10500, 9500, 10000>>)

\* Four daily bars: a close of 10.00 that takes the whole capital, a close of 0
\* at which the position is sold for nothing, and two closes at which the
\* capital left pays for no lot.
SpentFrame == DailyFrame(<<10000, 0, 9500, 10500>>)

\* Three daily bars at 300.00, 300.01 and 314.99: a rise of 0.0033 percent,
\* which rounds to 0.00, and one of 4.9967 percent, which rounds to 5.00.
NearThresholdFrame ==
    Frame(<<Row(1, 300000, Num(0)), Row(2, 300010, Num(0)), Row(3, 314990, Num(499))>>)

\* The daily inputs: no series, a series of at most MaxBars bars, one bar a
\* day, or one of the named series above.
DailyInputs ==
    {None, ScenarioFrame, ThreeTradesFrame, SpentFrame, NearThresholdFrame}
    \cup UNION {{DailyFrame(q) : q \in [1..n -> BarCloses]} : n \in 0..MaxBars}

RunInput(c, t, w, d) ==
    [fn |-> "run_backtest", stock_code |-> c.target_stock_code, config |-> c,
     today |-> t,
     kline_data |-> [daily |-> d,
                     weekly |-> IF w /\ d # None THEN WeeklyFrame(d) ELSE None,
                     monthly |-> None,
                     stock_name |-> "name"]]

\* BacktestEngine(config) constructed, run_backtest about to be called.
Init ==
    /\ pc = "start"
    /\ \E c \in RunConfigs, t \in Todays, w \in BOOLEAN, d \in DailyInputs :
          call = RunInput(c, t, w, d)
    /\ ret = None
    /\ expression = <<>>
    /\ prev_expression = None
    /\ kline_data = call.kline_data
    /\ backtest_data = <<>>
    /\ idx = 0
    /\ trades = <<>>
    /\ current_position = None
    /\ capital = initial_capital
    /\ signal = None
    /\ twin = None
    /\ stock_codes = <<>>
    /\ results = <<>>
    /\ ConfigAsImported

\* run_backtest up to the day loop (backtest.py:42-74).
Start ==
    /\ pc = "start"
    /\ trades' = <<>>
    /\ current_position' = None
    /\ capital' = initial_capital
    /\ IF kline_data.daily = None \/ Len(kline_data.daily.rows) = 0
       THEN /\ ret' = GenerateEmptyResult(call.stock_code, kline_data.stock_name)
            /\ pc' = "done"
            /\ UNCHANGED <<kline_data, backtest_data, idx>>
       ELSE /\ kline_data' = WithMa(kline_data)
            /\ backtest_data' = BacktestData(call.config, kline_data.daily, call.today)
            /\ IF Len(backtest_data') = 0
               THEN /\ ret' = GenerateEmptyResult(call.stock_code, kline_data.stock_name)
                    /\ pc' = "done"
                    /\ idx' = 0
               ELSE /\ ret' = ret
                    /\ pc' = "loop"
                    /\ idx' = 1
    /\ UNCHANGED <<call, expression, prev_expression, signal, twin>>
    /\ UNCHANGED batch_vars
    /\ UNCHANGED config_vars

\* One turn of the day loop (backtest.py:77-100).
Day ==
    /\ pc = "loop"
    /\ idx <= Len(backtest_data)
    /\ \E body \in {LoopBody(Engine, call.config, call.stock_code, kline_data,
                            backtest_data[idx].date)} :
           /\ signal' = body.signal
           /\ trades' = body.eng.trades
           /\ current_position' = body.eng.current_position
           /\ capital' = body.eng.capital
           /\ pc' = IF body.raised THEN "raised" ELSE "loop"
           /\ idx' = IF body.raised THEN idx ELSE idx + 1
    /\ UNCHANGED <<call, ret, expression, prev_expression, kline_data, backtest_data, twin>>
    /\ UNCHANGED batch_vars
    /\ UNCHANGED config_vars

\* After the loop (backtest.py:102-110): the forced close and the statistics.
Finish ==
    /\ pc = "loop"
    /\ idx > Len(backtest_data)
    /\ \E eng \in {ForcedClose(Engine, kline_data, backtest_data)} :
           /\ trades' = eng.trades
           /\ current_position' = eng.current_position
           /\ capital' = eng.capital
           /\ ret' = GenerateStatistics(eng, call.stock_code, kline_data.stock_name)
    /\ pc' = "done"
    /\ UNCHANGED <<call, expression, prev_expression, kline_data, backtest_data, idx,
                   signal, twin>>
    /\ UNCHANGED batch_vars
    /\ UNCHANGED config_vars

Next == Start \/ Day \/ Finish

Spec == Init /\ [][Next]_vars

(***************************************************************************)
(* SpecTwin: two replays, of two inputs that share their first bars        *)
(***************************************************************************)
\* The most bars the two inputs share, and the most bars each holds after them.
MaxShared == 2
MaxFuture == 1

\* The closes of the shared bars, and of the bars after them.
TwinCloses == {9500, 10000, 10500}
FutureCloses == {9500, 10500}

\* The configurations replayed, each with whether the input holds a weekly
\* series (the last one reads it).
TwinConfigs ==
    {[config |-> Config(<<>>, <<>>, 500, 500, 2), weekly |-> FALSE],
     [config |-> Config(<<>>, Text_DK_lt_m2, 500, 1000, 1), weekly |-> FALSE],
     [config |-> Config(CmpText(D1, OpGT, D2), <<>>, 500, 500, 2), weekly |-> FALSE],
     [config |-> Config(CmpText(W1, OpGE, D1), Text_WK_gt_05, 500, 1000, 1),
      weekly |-> TRUE]}

\* The state of an engine and of its run_backtest call.
Replay(kd, rows, i, eng, sig, raised) ==
    [kline_data |-> kd, backtest_data |-> rows, idx |-> i, trades |-> eng.trades,
     current_position |-> eng.current_position, capital |-> eng.capital,
     signal |-> sig, raised |-> raised]

\* run_backtest up to the day loop (backtest.py:42-74) for the series
\* dictionary kd: the rewritten dictionary and the rows of the window.
Started(config, kd, today) ==
    IF kd.daily = None \/ Len(kd.daily.rows) = 0
    THEN [kline_data |-> kd, backtest_data |-> <<>>]
    ELSE [kline_data |-> WithMa(kd), backtest_data |-> BacktestData(config, kd.daily, today)]

TwinInit ==
    /\ pc = "start"
    /\ \E tc \in TwinConfigs, t \in {365, 366},
          n \in 0..MaxShared, fa \in 0..MaxFuture, fb \in 0..MaxFuture :
          \E shared \in [1..n -> TwinCloses],
             a \in [1..fa -> FutureCloses], b \in [1..fb -> FutureCloses] :
             /\ call = [fn |-> "run_backtest",
                        stock_code |-> tc.config.target_stock_code,
                        config |-> tc.config, today |-> t, shared |-> n,
                        kline_data |-> RunInput(tc.config, t, tc.weekly,
                                                DailyFrame(shared \o a)).kline_data]
             /\ kline_data = call.kline_data
             /\ twin = Replay(RunInput(tc.config, t, tc.weekly,
                                       DailyFrame(shared \o b)).kline_data,
                              <<>>, 0,
                              [trades |-> <<>>, current_position |-> None,
                               capital |-> initial_capital], None, FALSE)
    /\ ret = None
    /\ expression = <<>>
    /\ prev_expression = None
    /\ backtest_data = <<>>
    /\ idx = 0
    /\ trades = <<>>
    /\ current_position = None
    /\ capital = initial_capital
    /\ signal = None
    /\ stock_codes = <<>>
    /\ results = <<>>
    /\ ConfigAsImported

\* Both calls reach their day loop.
TwinStart ==
    /\ pc = "start"
    /\ \E sa \in {Started(call.config, kline_data, call.today)},
          sb \in {Started(call.config, twin.kline_data, call.today)} :
          /\ kline_data' = sa.kline_data
          /\ backtest_data' = sa.backtest_data
          /\ twin' = [twin EXCEPT !.kline_data = sb.kline_data,
                                  !.backtest_data = sb.backtest_data, !.idx = 1]
    /\ idx' = 1
    /\ pc' = "loop"
    /\ UNCHANGED <<call, ret, expression, prev_expression, trades, current_position,
                   capital, signal>>
    /\ UNCHANGED batch_vars
    /\ UNCHANGED config_vars

\* Whether turn i of both day loops is for a date the inputs share.
SharedDay(i) ==
    /\ i <= Len(backtest_data)
    /\ i <= Len(twin.backtest_data)
    /\ backtest_data[i].date <= call.shared
    /\ twin.backtest_data[i].date <= call.shared

\* Both day loops take their next turn (backtest.py:77-100), on a shared date.
TwinDay ==
    /\ pc = "loop"
    /\ SharedDay(idx)
    /\ \E a \in {LoopBody(Engine, call.config, call.stock_code, kline_data,
                          backtest_data[idx].date)},
          b \in {LoopBody([trades |-> twin.trades,
                           current_position |-> twin.current_position,
                           capital |-> twin.capital],
                          call.config, call.stock_code, twin.kline_data,
                          twin.backtest_data[idx].date)} :
          /\ signal' = a.signal
          /\ trades' = a.eng.trades
          /\ current_position' = a.eng.current_position
          /\ capital' = a.eng.capital
          /\ twin' = Replay(twin.kline_data, twin.backtest_data, idx + 1, b.eng,
                            b.signal, b.raised)
          /\ pc' = IF a.raised \/ b.raised THEN "raised" ELSE "loop"
          /\ ret' = IF a.raised THEN [raised |-> TRUE] ELSE ret
    /\ idx' = idx + 1
    /\ UNCHANGED <<call, expression, prev_expression, kline_data, backtest_data>>
    /\ UNCHANGED batch_vars
    /\ UNCHANGED config_vars

\* The shared dates are over: the comparison ends.
TwinStop ==
    /\ pc = "loop"
    /\ ~SharedDay(idx)
    /\ pc' = "done"
    /\ UNCHANGED <<call, ret, expression, prev_expression, kline_data, backtest_data,
                   idx, trades, current_position, capital, signal, twin>>
    /\ UNCHANGED batch_vars
    /\ UNCHANGED config_vars

TwinNext == TwinStart \/ TwinDay \/ TwinStop

SpecTwin == TwinInit /\ [][TwinNext]_vars

(***************************************************************************)
(* SpecBatch: the module-level run_backtest(config) over the instruments   *)
(* of the configuration, followed by get_combined_statistics               *)
(***************************************************************************)
\* The largest number of pieces between semicolons in target_stock_code.
MaxCodes == 2

\* s.split(";")
RECURSIVE SplitSemicolon(_)
SplitSemicolon(s) ==
    LET at == {j \in 1..Len(s) : s[j] = ";"}
    IN  IF at = {} THEN <<s>>
        ELSE <<Slice(s, 1, Min(at))>> \o SplitSemicolon(Slice(s, Min(at) + 1, Len(s) + 1))

\* The pieces kept by `[code.strip() for code in ... if code.strip()]`.
RECURSIVE StripCodes(_)
StripCodes(pieces) ==
    IF pieces = <<>> THEN <<>>
    ELSE (IF Strip(Head(pieces)) = <<>> THEN <<>> ELSE <<Strip(Head(pieces))>>)
         \o StripCodes(Tail(pieces))

\* get_stock_codes(config)
GetStockCodes(config) ==
    IF config.target_stock_code = <<>> THEN <<>>
    ELSE StripCodes(SplitSemicolon(config.target_stock_code))

\* The day loop of BacktestEngine.run_backtest from row i on (backtest.py:77-100).
RECURSIVE RunDays(_, _, _, _, _, _)
RECURSIVE RunDaysNext(_, _, _, _, _, _)
RunDays(eng, config, stock_code, kd, rows, i) ==
    IF i > Len(rows) THEN [raised |-> FALSE, eng |-> eng]
    ELSE RunDaysNext(LoopBody(eng, config, stock_code, kd, rows[i].date),
                     config, stock_code, kd, rows, i)

\* The loop after one turn: a turn that raised ends the run.
RunDaysNext(body, config, stock_code, kd, rows, i) ==
    IF body.raised THEN [raised |-> TRUE, eng |-> body.eng]
    ELSE RunDays(body.eng, config, stock_code, kd, rows, i + 1)

\* backtest.py:102-110 after a day loop that ended as `run`.
RunFinish(run, stock_code, kd, rows) ==
    IF run.raised THEN [raised |-> TRUE, ret |-> None]
    ELSE [raised |-> FALSE,
          ret |-> GenerateStatistics(ForcedClose(run.eng, kd, rows),
                                     stock_code, kd.stock_name)]

\* backtest.py:60-110 over the rows of the window.
RunWindow(config, stock_code, kd, rows) ==
    IF Len(rows) = 0
    THEN [raised |-> FALSE, ret |-> GenerateEmptyResult(stock_code, kd.stock_name)]
    ELSE RunFinish(RunDays([trades |-> <<>>, current_position |-> None,
                            capital |-> initial_capital],
                           config, stock_code, kd, rows, 1),
                   stock_code, kd, rows)

\* BacktestEngine(config).run_backtest(stock_code, kline_data) as one call:
\* whether it raised, and the result it returned.
EngineRunBacktest(config, stock_code, kd, today) ==
    IF kd.daily = None \/ Len(kd.daily.rows) = 0
    THEN [raised |-> FALSE, ret |-> GenerateEmptyResult(stock_code, kd.stock_name)]
    ELSE RunWindow(config, stock_code, WithMa(kd), BacktestData(config, kd.daily, today))

\* all_trades of get_combined_statistics: the trades of every result, in order.
RECURSIVE AllTrades(_)
AllTrades(rs) ==
    IF rs = <<>> THEN <<>> ELSE Head(rs).trades \o AllTrades(Tail(rs))

\* The zero statistics of get_combined_statistics (backtest.py:299-308).
CombinedZero ==
    [total_trades |-> 0, win_count |-> 0, loss_count |-> 0, win_rate |-> 0,
     total_return |-> 0, total_return_pct |-> 0, avg_hold_days |-> 0]

\* The statistics of a non-empty list of trades (backtest.py:310-331).
CombinedOf(all_trades, total_trades, win_count, total_profit) ==
    [total_trades |-> total_trades,
     win_count |-> win_count,
     loss_count |-> total_trades - win_count,
     win_rate |-> RoundDiv(win_count * 10000, total_trades),
     total_return |-> Round2(total_profit),
     total_return_pct |-> RoundDiv(total_profit, initial_capital \div 10000),
     final_capital |-> Round2(initial_capital + total_profit),
     avg_hold_days |-> RoundDiv(SumField(all_trades, "hold_days") * 10, total_trades)]

\* The statistics of a list of trades.
CombinedOfTrades(all_trades) ==
    IF Len(all_trades) = 0 THEN CombinedZero
    ELSE CombinedOf(all_trades, Len(all_trades),
                    Cardinality({i \in 1..Len(all_trades) : all_trades[i].profit > 0}),
                    SumField(all_trades, "profit"))

\* Combined statistics whose return is the mean of the instruments' returns.
GetCombinedStatisticsPerInstrument(rs) ==
    IF Len(AllTrades(rs)) = 0 THEN CombinedZero
    ELSE [CombinedOfTrades(AllTrades(rs)) EXCEPT
             !.total_return_pct = RoundDiv(SumField(AllTrades(rs), "profit"),
                                           Len(rs) * (initial_capital \div 10000))]

\* get_combined_statistics(results): win_rate and total_return_pct in units of
\* 0.01 percent, avg_hold_days in tenths of a day.
GetCombinedStatistics(rs) == CombinedOfTrades(AllTrades(rs))

\* Instrument codes as the configuration writes them, a padded one and a
\* blank piece.
CodePieces ==
    {<<"6", "0", "0", "0", "0", "0">>, <<" ", "0", "0", "0", "0", "0", "1", " ">>, <<" ">>}

\* The pieces joined by semicolons.
RECURSIVE JoinCodes(_)
JoinCodes(q) ==
    IF Len(q) = 0 THEN <<>>
    ELSE IF Len(q) = 1 THEN q[1]
    ELSE q[1] \o <<";">> \o JoinCodes(Tail(q))

\* The values of target_stock_code: at most MaxCodes pieces.
CodeTexts == UNION {{JoinCodes(q) : q \in [1..n -> CodePieces]} : n \in 0..MaxCodes}

\* A close of 10.00 and one of 10.10: held to the end with the default
\* thresholds, the trade earns 10,000.
TenThousandFrame == Frame(<<Row(1, 10000, Num(100)), Row(2, 10100, Num(100))>>)

\* Closes of 10.00, 10.50, 9.50 and 10.07: two winning trades whose profits add
\* up to 112,985.
OddProfitFrame ==
    Frame(<<Row(1, 10000, Num(100)), Row(2, 10500, Num(500)),
            Row(3, 9500, Num(-952)), Row(4, 10070, Num(600))>>)

\* What get_stock_data can give for `daily`: None when nothing was stored or
\* fetched (data.py:245-279), else a series with at least one bar
\* (data.py:70, data.py:204-205).
DailyOutcomes ==
    {None, TenThousandFrame, OddProfitFrame, ThreeTradesFrame, DailyFrame(<<0>>)}

\* The dictionary returned by get_stock_data.
StockData(d) == [daily |-> d, weekly |-> None, monthly |-> None, stock_name |-> "name"]

\* The configurations of the batch: no buy rule, and the buy rules of
\* DEFAULT_CONFIG; the sell thresholds of DEFAULT_CONFIG.
BatchConfigs ==
    {[c EXCEPT !.target_stock_code = text] :
        c \in {Config(<<>>, <<>>, 500, 1000, 60),
               Config(<<>>, Text_DK_lt_m2, 500, 1000, 60)},
        text \in CodeTexts}

\* run_backtest(config) about to be called.
BatchInit ==
    /\ pc = "batch_start"
    /\ \E c \in BatchConfigs, t \in {365, 465} :
          call = [fn |-> "run_backtest(config)", config |-> c, today |-> t]
    /\ ret = None
    /\ expression = <<>>
    /\ prev_expression = None
    /\ kline_data = None
    /\ backtest_data = <<>>
    /\ idx = 0
    /\ trades = <<>>
    /\ current_position = None
    /\ capital = initial_capital
    /\ signal = None
    /\ twin = None
    /\ stock_codes = <<>>
    /\ results = <<>>
    /\ ConfigAsImported

\* backtest.py:236-239: the codes are read and the list of results is empty.
BatchStart ==
    /\ pc = "batch_start"
    /\ stock_codes' = GetStockCodes(call.config)
    /\ results' = <<>>
    /\ idx' = 1
    /\ pc' = "batch_loop"
    /\ UNCHANGED <<call, ret, expression, prev_expression, kline_data, backtest_data,
                   trades, current_position, capital, signal, twin>>
    /\ UNCHANGED config_vars

\* The turn of an instrument whose engine returned or raised.
BatchTurn(run) ==
    /\ results' = IF run.raised THEN results ELSE Append(results, run.ret)
    /\ pc' = IF run.raised THEN "raised" ELSE "batch_loop"
    /\ idx' = IF run.raised THEN idx ELSE idx + 1

\* One turn of the loop over the instruments (backtest.py:241-256): an
\* instrument without a daily series is skipped, any other is replayed by an
\* engine of its own and its result appended.
BatchInstrument ==
    /\ pc = "batch_loop"
    /\ idx <= Len(stock_codes)
    /\ \E d \in DailyOutcomes :
          /\ kline_data' = StockData(d)
          /\ IF d = None
             THEN /\ results' = results
                  /\ pc' = "batch_loop"
                  /\ idx' = idx + 1
             ELSE BatchTurn(EngineRunBacktest(call.config, stock_codes[idx],
                                              StockData(d), call.today))
    /\ UNCHANGED <<call, ret, expression, prev_expression, backtest_data,
                   trades, current_position, capital, signal, twin, stock_codes>>
    /\ UNCHANGED config_vars

\* backtest.py:258-261: the list is written to the trades file (a failure to
\* write is swallowed, backtest.py:264-270) and returned.
BatchReturn ==
    /\ pc = "batch_loop"
    /\ idx > Len(stock_codes)
    /\ ret' = results
    /\ pc' = "batch_done"
    /\ UNCHANGED <<call, expression, prev_expression, kline_data, backtest_data, idx,
                   trades, current_position, capital, signal, twin, stock_codes, results>>
    /\ UNCHANGED config_vars

\* The caller passes the returned list to get_combined_statistics
\* (ui.py:57-58, backtest.py:337-350).
BatchCombine ==
    /\ pc = "batch_done"
    /\ ret' = GetCombinedStatistics(results)
    /\ pc' = "combined"
    /\ UNCHANGED <<call, expression, prev_expression, kline_data, backtest_data, idx,
                   trades, current_position, capital, signal, twin, stock_codes, results>>
    /\ UNCHANGED config_vars

BatchNext == BatchStart \/ BatchInstrument \/ BatchReturn \/ BatchCombine

SpecBatch == BatchInit /\ [][BatchNext]_vars

(***************************************************************************)
(* C7, C8                                                                  *)
(***************************************************************************)
\* Copy k of a term: its lookback raised by k, added to the one it carries;
\* copy 0 is the term as written.
Shifted(t, k) ==
    IF k = 0 THEN t ELSE [t EXCEPT !.off = (IF t.off < 0 THEN 0 ELSE t.off) + k]

\* The conjunction  (E@0) && (E@1) && ... && (E@(n-1))  of a repetition case.
Conjunction(c) ==
    Join([k \in 1..c.n |->
            Paren(CmpText(TermText(Shifted(c.t1, k - 1)), c.op,
                          TermText(Shifted(c.t2, k - 1))))],
         <<" ", "&", "&", " ">>)

\* C7: for a body E without parentheses and a positive count N,
\* expand_repeat_expression turns (E) * N into the conjunction of N
\* parenthesised copies of E joined by " && ", copy k having every term's
\* lookback raised by k on top of the offset the term already carries.
C7_Expansion ==
    (pc = "done" /\ call.kind = "rep" /\ call.n >= 1) => ret.text = Conjunction(call)

\* C7's case: a count of three over terms of which one already carries an offset.
C7_Witness ==
    /\ pc = "done" /\ call.kind = "rep"
    /\ call.n = 3 /\ call.t1.off = 2 /\ call.t2.off = -1
    /\ ret.text = Conjunction(call)

HasStar(s) == \E i \in 1..Len(s) : s[i] = "*"

\* C8: a text without a repetition term is returned unchanged; for inputs whose
\* repetition bodies hold no parentheses the result holds no repetition term
\* (and no star at all); and expanding a result again returns it unchanged.
C8_Idempotence ==
    pc = "done" =>
        /\ (RepeatSearchFrom(CaseText(call), 1) = 0 => ret.text = CaseText(call))
        /\ (call.kind \in {"rep", "flat", "plain"} =>
                RepeatSearchFrom(ret.text, 1) = 0 /\ ~HasStar(ret.text))
        /\ ExpandRepeatExpression(ret.text) = ret.text

\* C8's cases: a chained count that takes two rewriting passes, and a text
\* without repetition that comes back as it went in.
C8_Witness ==
    /\ pc = "done"
    /\ \/ /\ call.kind = "flat" /\ HasStar(RepeatSub(CaseText(call), 1))
          /\ ExpandRepeatExpression(ret.text) = ret.text
       \/ /\ call.kind = "plain" /\ Len(CaseText(call)) > 0
          /\ ret.text = CaseText(call)

(***************************************************************************)
(* C5, C6, C9, C10                                                         *)
(***************************************************************************)
\* The series a granularity letter names, None when the dictionary lacks it.
SeriesOf(kd, g) ==
    IF MA_TYPES[g] \notin DOMAIN kd THEN None ELSE kd[MA_TYPES[g]]

\* The bars of a series dated at or before the date.
BarsUpTo(series, date) ==
    IF series = None THEN <<>> ELSE SelectSeq(series.rows, LAMBDA r : r.date <= date)

Lookback(t) == IF t.off < 0 THEN 0 ELSE t.off

\* A term cannot be resolved: the series is missing, holds fewer than
\* offset + 1 bars up to the date, or the bar it reads has fewer than `period`
\* bars of warm-up behind it.
Unresolvable(t, kd, date) ==
    LET n == Len(BarsUpTo(SeriesOf(kd, t.g), date))
    IN  n < Lookback(t) + 1 \/ n - Lookback(t) < t.p

\* The rolling mean of the term's period read at bar (last index - offset).
MeanOf(t, kd, date) ==
    LET bars == BarsUpTo(SeriesOf(kd, t.g), date)
        at == Len(bars) - Lookback(t)
    IN  SumClose(bars, at - t.p + 1, at) \div t.p

\* The terms of the expanded text of a K-line case.
TermsOf(c) ==
    IF c.kind \in {"cmp", "rep"}
    THEN UNION {{Shifted(c.t1, k), Shifted(c.t2, k)} : k \in 0..(c.n - 1)}
    ELSE IF c.kind \in {"or", "and", "not"} THEN {c.t1, c.t2}
    ELSE {}

\* C5: when a moving-average term of the expanded K-line expression cannot be
\* resolved on the date (too few bars for its offset, a missing series, or a
\* rolling mean still undefined for lack of warm-up), evaluate_kline_strategy
\* returns false whatever the other terms and the connectives are.
C5_FailClosed ==
    (/\ pc = "done"
     /\ call.fn = "evaluate_kline_strategy"
     /\ \E t \in TermsOf(call.case) : Unresolvable(t, call.kline_data, call.date))
    => ret.value = FALSE

\* C6: for resolvable data a comparison of two terms, repeated N times, is true
\* exactly when the comparison holds between the two rolling means read at
\* bar (last index - offset - k), for each k below N.
C6_OffsetResolution ==
    (/\ pc = "done"
     /\ call.fn = "evaluate_kline_strategy"
     /\ call.case.kind \in {"cmp", "rep"}
     /\ \A t \in TermsOf(call.case) : ~Unresolvable(t, call.kline_data, call.date))
    => ret.value =
         \A k \in 0..(call.case.n - 1) :
            Compare(MeanOf(Shifted(call.case.t1, k), call.kline_data, call.date),
                    call.case.op,
                    MeanOf(Shifted(call.case.t2, k), call.kline_data, call.date))

LatestPct(bars) ==
    LET n == Len(bars)
    IN  IF bars[n].pct_change # NoColumn THEN [n |-> bars[n].pct_change.num, d |-> 100]
        ELSE IF n >= 2
        THEN [n |-> (bars[n].close - bars[n - 1].close) * 100, d |-> bars[n - 1].close]
        ELSE [n |-> 0, d |-> 1]

\* x op y for the ratios x and y.
RatioCompare(x, op, y) == Compare(x.n * y.d, op, y.n * x.d)

CallPrices == BarCloses \cup {1000}

\* A day-loop turn is about to run.
DayTurn == pc = "loop" /\ idx <= Len(backtest_data)

\* C1: the engine is Flat or holds one position; while a position is open a
\* call of _execute_buy changes neither position, capital nor trades, no buy
\* signal is produced, and a day either leaves position, capital and trades
\* alone or sells that position: buy conditions true on consecutive days give
\* one position and one trade.
C1_AtMostOnePosition ==
    /\ [](current_position # None =>
            /\ current_position.shares > 0
            /\ current_position.cost = current_position.shares * current_position.buy_price
            /\ \A price \in CallPrices :
                  /\ ~ExecuteBuyRaises(Engine, price)
                  /\ ExecuteBuy(Engine, call.stock_code, kline_data.stock_name,
                                current_position.buy_date + 1, price) = Engine)
    /\ [][(DayTurn /\ current_position # None) =>
            /\ signal'.action # "buy"
            /\ \/ UNCHANGED <<current_position, capital, trades>>
               \/ /\ signal'.action = "sell"
                  /\ current_position' = None
                  /\ Len(trades') = Len(trades) + 1
                  /\ trades'[Len(trades')].buy_date = Strftime(current_position.buy_date)
                  /\ SubSeq(trades', 1, Len(trades)) = trades]_vars

\* The buy conditions of the configuration on the date of the last signal.
BuyConditionsHold ==
    CheckBuySignal(TradingStrategy(call.config),
                   CurrentKlineData(kline_data, signal.date, kline_data.stock_name),
                   signal.date, FALSE)

\* C1's case: the position bought on an earlier day is held through a day on
\* which the buy conditions hold again, and there is still one position and no
\* second purchase.
C1_Witness ==
    /\ pc = "loop"
    /\ current_position # None
    /\ signal # None
    /\ signal.action = "None"
    /\ current_position.buy_date < signal.date
    /\ call.config.kline_strategy.buy # <<>>
    /\ BuyConditionsHold
    /\ trades = <<>>

\* C2: after every date the two inputs share, the signal of that date and the
\* ledger (trades, position, capital) of the two replays are the same, and one
\* replay raises exactly when the other does.
C2_NoLookahead ==
    pc \in {"loop", "done", "raised"} =>
        /\ signal = twin.signal
        /\ trades = twin.trades
        /\ current_position = twin.current_position
        /\ capital = twin.capital
        /\ (pc = "raised") = twin.raised
        /\ \A i \in 1..(idx - 1) : backtest_data[i] = twin.backtest_data[i]

\* C2's case: two inputs with different bars after the shared ones, replayed
\* over two shared dates on which a position was bought and sold.
C2_Witness ==
    /\ pc = "done"
    /\ idx = 3
    /\ Len(kline_data.daily.rows) = 3
    /\ Len(twin.kline_data.daily.rows) = 3
    /\ kline_data.daily.rows[3].close # twin.kline_data.daily.rows[3].close
    /\ Len(trades) = 1
    /\ signal.action = "sell"
    /\ trades = twin.trades

\* C3: when the day loop ends with a position open, the call returns a result
\* whose last trade has the reason of the forced close and the close of the
\* last simulated bar as its sell price, and the engine holds no position.
C3_ForcedClose ==
    [][(pc = "loop" /\ idx > Len(backtest_data) /\ current_position # None) =>
          /\ pc' = "done"
          /\ current_position' = None
          /\ ret'.trades = trades'
          /\ Len(ret'.trades) = Len(trades) + 1
          /\ ret'.trades[Len(ret'.trades)].sell_reason = BacktestEnd
          /\ ret'.trades[Len(ret'.trades)].sell_price
                = backtest_data[Len(backtest_data)].close
          /\ ret'.trades[Len(ret'.trades)].sell_date
                = Strftime(backtest_data[Len(backtest_data)].date)]_vars

\* C3's case: a finished run whose position, bought two days before the last
\* one at another price, was closed by the forced close.
C3_Witness ==
    /\ pc = "done"
    /\ current_position = None
    /\ Len(ret.trades) = 1
    /\ ret.trades[1].sell_reason = BacktestEnd
    /\ ret.trades[1].hold_days = 2
    /\ ret.trades[1].sell_price # ret.trades[1].buy_price
    /\ ret.trades[1].sell_price = backtest_data[Len(backtest_data)].close

\* C4: a buy lowers capital by shares x price, the cost it records; a sell
\* raises capital by shares x sell price, and the profit of its trade is that
\* revenue minus the cost recorded at the buy.
C4_CapitalConservation ==
    [][/\ (current_position = None /\ current_position' # None) =>
            /\ current_position'.cost
                  = current_position'.shares * current_position'.buy_price
            /\ capital' = capital - current_position'.cost
            /\ trades' = trades
       /\ (current_position # None /\ current_position' = None) =>
            /\ Len(trades') = Len(trades) + 1
            /\ capital' = capital + current_position.shares * trades'[Len(trades')].sell_price
            /\ trades'[Len(trades')].shares = current_position.shares
            /\ trades'[Len(trades')].profit
                  = current_position.shares * trades'[Len(trades')].sell_price
                    - current_position.cost]_vars

\* C4's case: a position sold at a loss and a second one bought with what the
\* sale returned.
C4_Witness ==
    /\ pc = "loop"
    /\ Len(trades) = 1
    /\ trades[1].profit < 0
    /\ current_position # None
    /\ capital + current_position.cost = initial_capital + trades[1].profit

(***************************************************************************)
(* C11, C12, C13                                                           *)
(***************************************************************************)
\* A series cut at the date: its bars dated at or before it (None stays None).
Truncated(series, date) ==
    IF series = None THEN None ELSE [series EXCEPT !.rows = BarsUpTo(series, date)]

\* The snapshot of the day the loop is about to simulate.
Snapshot ==
    [daily |-> Truncated(kline_data.daily, backtest_data[idx].date),
     weekly |-> Truncated(kline_data.weekly, backtest_data[idx].date),
     monthly |-> Truncated(kline_data.monthly, backtest_data[idx].date),
     stock_name |-> kline_data.stock_name]

\* The K-line expression of the configuration holds on the snapshot.
KlineHolds ==
    EvaluateKlineStrategy(call.config.kline_strategy.buy, Snapshot,
                          backtest_data[idx].date)

\* The percentage-change gate of the configuration holds on the snapshot.
GateHolds ==
    EvaluateTradeBuyCondition(call.config.trade_strategy.BUYS, Snapshot,
                              backtest_data[idx].date)

\* C11: on a day the engine is Flat, the signal is a buy exactly when the
\* K-line expression and the percentage-change gate both evaluate true on the
\* snapshot cut at that date; when one of them is false the day leaves
\* position, capital and trades as they were.
C11_BuyTrigger ==
    [][(DayTurn /\ current_position = None) =>
          /\ (signal'.action = "buy") <=> (KlineHolds /\ GateHolds)
          /\ signal'.action # "sell"
          /\ ~(KlineHolds /\ GateHolds) =>
                UNCHANGED <<current_position, capital, trades>>]_vars

\* C11's case: a Flat day on which the K-line expression (not blank) holds and
\* the gate (not blank) does not, simulated without a purchase.
C11_Witness ==
    /\ pc = "loop"
    /\ idx > 1
    /\ current_position = None
    /\ trades = <<>>
    /\ signal.action = "None"
    /\ call.config.kline_strategy.buy # <<>>
    /\ call.config.trade_strategy.BUYS # <<>>
    /\ EvaluateKlineStrategy(call.config.kline_strategy.buy,
                             CurrentKlineData(kline_data, signal.date, "name"),
                             signal.date)
    /\ ~EvaluateTradeBuyCondition(call.config.trade_strategy.BUYS,
                                  CurrentKlineData(kline_data, signal.date, "name"),
                                  signal.date)

\* The lot relation between the engine before a call of _execute_buy at a
\* positive price and the engine `after` it: either nothing is affordable and
\* nothing changed, or the shares bought are the largest multiple of 100 the
\* capital pays for.
LotSized(before, after, price) ==
    IF before.capital < 100 * price
    THEN after = before
    ELSE /\ after.current_position # None
         /\ after.current_position.shares % 100 = 0
         /\ after.current_position.shares > 0
         /\ after.current_position.shares * price <= before.capital
         /\ (after.current_position.shares + 100) * price > before.capital
         /\ after.current_position.cost = after.current_position.shares * price
         /\ after.capital = before.capital - after.current_position.cost
         /\ after.capital >= 0
         /\ after.capital < 100 * price
         /\ after.trades = before.trades

\* The capitals a call of _execute_buy is tried with in a Flat state: the
\* engine's, a ten-thousandth of it, and none.
LotCapitals == {capital, capital \div 10000, 0}

RuleOfTheDay ==
    LET close == backtest_data[idx].close
        buy == current_position.buy_price
        d == backtest_data[idx].date - current_position.buy_date
        sell == call.config.trade_strategy.SELL
    IN  IF (close - buy) * 10000 >= sell.GAIN * buy THEN TakeProfit
        ELSE IF (close - buy) * 10000 <= (0 - sell.LOSS) * buy THEN StopLoss
        ELSE IF d >= sell.PERIOD THEN Expired
        ELSE "keep"

\* C13: on each day with a position open the position is sold with reason
\* take-profit if the return reaches GAIN, otherwise stop-loss if it falls to
\* -LOSS, otherwise expired if the holding period is over, and otherwise kept;
\* the sale is at the day's close and the first rule that matches names it.
C13_SellPriority ==
    [][(DayTurn /\ current_position # None) =>
          IF RuleOfTheDay = "keep"
          THEN /\ signal'.action = "None"
               /\ UNCHANGED <<current_position, capital, trades>>
          ELSE /\ signal'.action = "sell"
               /\ signal'.reason = RuleOfTheDay
               /\ current_position' = None
               /\ Len(trades') = Len(trades) + 1
               /\ trades'[Len(trades')].sell_reason = RuleOfTheDay
               /\ trades'[Len(trades')].sell_price = backtest_data[idx].close
               /\ trades'[Len(trades')].sell_date = Strftime(backtest_data[idx].date)]_vars

\* C13's case: a sale on a day on which the return had reached GAIN and the
\* holding period was over as well, recorded as take-profit.
C13_Witness ==
    /\ pc = "loop"
    /\ current_position = None
    /\ Len(trades) = 1
    /\ trades[1].sell_reason = TakeProfit
    /\ trades[1].hold_days >= call.config.trade_strategy.SELL.PERIOD
    /\ (trades[1].sell_price - trades[1].buy_price) * 10000
          >= call.config.trade_strategy.SELL.GAIN * trades[1].buy_price

(***************************************************************************)
(* C14                                                                     *)
(***************************************************************************)
\* The usual meaning of a comparison operator.
UsualMeaning(a, op, b) ==
    IF op = OpGT THEN a > b
    ELSE IF op = OpLT THEN a < b
    ELSE IF op = OpGE THEN a >= b
    ELSE IF op = OpLE THEN a <= b
    ELSE IF op = OpEQ THEN a = b
    ELSE a # b

\* The mean a term of the call resolves to.
MeanAt(t) == MeanOf(t, call.kline_data, call.date)

\* What the text of an ops, or, and, not case means.
UsualValue(c) ==
    IF c.kind = "ops" THEN UsualMeaning(MeanAt(c.t1), c.op, MeanAt(c.t2))
    ELSE IF c.kind = "or"
    THEN UsualMeaning(MeanAt(c.t1), c.op, MeanAt(c.t1)) \/ MeanAt(c.t1) > MeanAt(c.t2)
    ELSE IF c.kind = "and"
    THEN UsualMeaning(MeanAt(c.t1), c.op, MeanAt(c.t1)) /\ MeanAt(c.t1) > MeanAt(c.t2)
    ELSE ~(MeanAt(c.t1) > MeanAt(c.t2))

\* A call of evaluate_kline_strategy on a text built of comparisons and
\* connectives whose terms all resolve.
OperatorCall ==
    /\ pc = "done"
    /\ call.fn = "evaluate_kline_strategy"
    /\ call.case.kind \in {"ops", "or", "and", "not"}
    /\ \A t \in {call.case.t1, call.case.t2} :
          ~Unresolvable(t, call.kline_data, call.date)

\* C14: for resolvable terms each of the six comparisons >, <, >=, <=, ==, !=
\* and the connectives &&, || and ! evaluates with its usual meaning: A != B
\* is true exactly when the two values differ, !(A > B) exactly when A <= B.
C14_Operators ==
    OperatorCall => ret.value = UsualValue(call.case)

\* The same without the operator != : every other comparison and the three
\* connectives evaluate with their usual meaning.
OperatorsButNotEqual ==
    (OperatorCall /\ call.case.op # OpNE) => ret.value = UsualValue(call.case)

(***************************************************************************)
(* C15                                                                     *)
(***************************************************************************)
\* The replay of the scenario: ScenarioFrame from its first bar on, no buy
\* rule, GAIN 5 percent.
ScenarioRun ==
    /\ call.kline_data.daily = ScenarioFrame
    /\ call.today = 365
    /\ call.config.kline_strategy.buy = <<>>
    /\ call.config.trade_strategy.BUYS = <<>>
    /\ call.config.trade_strategy.SELL.GAIN = 500

\* C15: from a capital of 1,000,000 the buy at 10.00 gives 100,000 shares, a
\* cost of 1,000,000 and capital 0; the close of 10.50 thirty days later takes
\* profit (GAIN 5) and appends the trade with buy price 10.00, sell price
\* 10.50, 100,000 shares, profit 50,000, profit_pct 5.0 and 30 days held; the
\* statistics are 1 trade, 1 win, win rate 100, total return 50,000 and 5.0
\* percent.  (Money in 0.001 yuan, percentages in 0.01 percent.)
C15_Scenario ==
    ScenarioRun =>
        /\ (pc = "loop" /\ idx = 2) =>
              /\ current_position # None
              /\ current_position.buy_price = 10000
              /\ current_position.shares = 100000
              /\ current_position.cost = 1000000 * 1000
              /\ capital = 0
        /\ (pc = "loop" /\ idx = 3) =>
              /\ signal.action = "sell"
              /\ signal.reason = TakeProfit
              /\ current_position = None
              /\ capital = 1050000 * 1000
        /\ pc = "done" =>
              /\ Len(ret.trades) = 1
              /\ ret.trades[1].buy_price = 10000
              /\ ret.trades[1].sell_price = 10500
              /\ ret.trades[1].shares = 100000
              /\ ret.trades[1].profit = 50000 * 1000
              /\ ret.trades[1].profit_pct = 500
              /\ ret.trades[1].hold_days = 30
              /\ ret.trades[1].sell_reason = TakeProfit
              /\ ret.statistics.total_trades = 1
              /\ ret.statistics.win_count = 1
              /\ ret.statistics.win_rate = 100 * 100
              /\ ret.statistics.total_return = 50000 * 1000
              /\ ret.statistics.total_return_pct = 500

\* C15's case: the scenario replayed to its end.
C15_Witness ==
    /\ ScenarioRun
    /\ pc = "done"
    /\ Len(ret.trades) = 1
    /\ ret.trades[1].hold_days = 30
    /\ ret.statistics.total_return_pct = 500

(***************************************************************************)
(* C16                                                                     *)
(***************************************************************************)
\* The sum of field f over the first n trades of the list.
RECURSIVE TotalOf(_, _, _)
TotalOf(ts, f, n) == IF n = 0 THEN 0 ELSE TotalOf(ts, f, n - 1) + ts[n][f]

Wins(ts) == Cardinality({i \in 1..Len(ts) : ts[i].profit > 0})

Losses(ts) == Cardinality({i \in 1..Len(ts) : ts[i].profit <= 0})

\* |x|
Abs(x) == IF x < 0 THEN 0 - x ELSE x

\* v is n / d rounded to the nearest integer (either way on a tie), d > 0.
IsRounded(v, n, d) == 2 * Abs(v * d - n) <= d

\* The counts of the statistics of a finished run, and its zero-trade case.
CountsAndZeroCase ==
    LET st == ret.statistics
    IN  /\ st.total_trades = Len(ret.trades)
        /\ st.win_count = Wins(ret.trades)
        /\ st.loss_count = Losses(ret.trades)
        /\ st.win_count + st.loss_count = st.total_trades
        /\ Len(ret.trades) = 0 =>
              /\ st.win_rate = 0 /\ st.total_return = 0
              /\ st.total_return_pct = 0 /\ st.avg_hold_days = 0

\* C16 as stated: besides the counts, win_rate is win_count / total_trades
\* x 100, total_return the sum of the profits, total_return_pct that sum over
\* the initial capital x 100 and avg_hold_days the mean of hold_days.
\* (win_rate and total_return_pct are in 0.01 percent, avg_hold_days in 0.1
\* day, money in 0.001 yuan.)
C16_Statistics ==
    pc = "done" =>
        /\ CountsAndZeroCase
        /\ Len(ret.trades) > 0 =>
              LET st == ret.statistics
                  n == Len(ret.trades)
              IN  /\ st.win_rate * n = st.win_count * 10000
                  /\ st.total_return = TotalOf(ret.trades, "profit", n)
                  /\ st.total_return_pct * (initial_capital \div 10000) = st.total_return
                  /\ st.avg_hold_days * n = TotalOf(ret.trades, "hold_days", n) * 10

\* C16 amended: the counts are as stated; win_rate, total_return and
\* total_return_pct are the stated values rounded to two decimals and
\* avg_hold_days the mean rounded to one decimal; total_return_pct is computed
\* from final capital - initial capital, which is the sum of the profits.
C16_RoundedStatistics ==
    pc = "done" =>
        /\ CountsAndZeroCase
        /\ Len(ret.trades) > 0 =>
              LET st == ret.statistics
                  n == Len(ret.trades)
              IN  /\ IsRounded(st.win_rate, st.win_count * 10000, n)
                  /\ st.total_return % 10 = 0
                  /\ IsRounded(st.total_return \div 10,
                               TotalOf(ret.trades, "profit", n), 10)
                  /\ capital - initial_capital = TotalOf(ret.trades, "profit", n)
                  /\ IsRounded(st.total_return_pct, capital - initial_capital,
                               initial_capital \div 10000)
                  /\ IsRounded(st.avg_hold_days,
                               TotalOf(ret.trades, "hold_days", n) * 10, n)

\* C16's case: a finished run of three trades, one won, one lost and one
\* closed at its buy price: a win rate of 33.33 and 0.7 days held on average.
C16_Witness ==
    /\ pc = "done"
    /\ Len(ret.trades) = 3
    /\ ret.statistics.win_count = 1
    /\ ret.statistics.loss_count = 2
    /\ ret.trades[3].profit = 0
    /\ ret.statistics.win_rate = 3333
    /\ ret.statistics.avg_hold_days = 7

(***************************************************************************)
(* C18, C20                                                                *)
(***************************************************************************)
\* C18: run_backtest never raises, whatever the bars (a close of 0 on a day
\* with a buy signal or while a position is held) and whatever the two rule
\* texts are: every replay goes on to return a result.
C18_NeverAborts == pc # "raised"

\* The daily series of the call is absent or empty, or none of its bars is
\* dated after the start of the window, backtest_year x 365 days before today.
EmptyInput ==
    \/ call.kline_data.daily = None
    \/ \A i \in 1..Len(call.kline_data.daily.rows) :
          call.kline_data.daily.rows[i].date
             <= call.today - 365 * call.config.backtest_year

\* C20: when the daily series is absent or empty or no bar falls in the
\* window, run_backtest returns at once a result with no trade and with
\* counts, rates and returns of 0, without raising and without evaluating a
\* day; with any other input it enters the day loop.
C20_EmptyInput ==
    [][pc = "start" =>
          IF EmptyInput
          THEN /\ pc' = "done"
               /\ ret'.stock_code = call.stock_code
               /\ ret'.trades = <<>>
               /\ ret'.statistics =
                     [total_trades |-> 0, win_count |-> 0, loss_count |-> 0,
                      win_rate |-> 0, total_return |-> 0, total_return_pct |-> 0,
                      avg_hold_days |-> 0]
               /\ signal' = None
               /\ trades' = <<>>
               /\ current_position' = None
               /\ capital' = initial_capital
          ELSE pc' = "loop" /\ idx' = 1 /\ Len(backtest_data') > 0]_vars

\* C20's case: a series of bars all dated before the window, returned as a
\* zero-trade result with no day evaluated.
C20_Witness ==
    /\ pc = "done"
    /\ call.kline_data.daily # None
    /\ Len(call.kline_data.daily.rows) = MaxBars
    /\ EmptyInput
    /\ signal = None
    /\ ret.trades = <<>>
    /\ ret.statistics.total_trades = 0

(***************************************************************************)
(* C17, C19                                                                *)
(***************************************************************************)
\* The profit of an instrument: the sum of the profits of its trades.
ProfitOf(result) == TotalOf(result.trades, "profit", Len(result.trades))

\* The sum over the first n results of the profits of their trades.
RECURSIVE ProfitOfAll(_, _)
ProfitOfAll(rs, n) == IF n = 0 THEN 0 ELSE ProfitOfAll(rs, n - 1) + ProfitOf(rs[n])

\* The sum over the first n results of the statistic f.
RECURSIVE StatisticOfAll(_, _, _)
StatisticOfAll(rs, f, n) ==
    IF n = 0 THEN 0 ELSE StatisticOfAll(rs, f, n - 1) + rs[n].statistics[f]

\* The combined counts are the sums of the instruments' counts.
CountsAddUp ==
    /\ ret.total_trades = StatisticOfAll(results, "total_trades", Len(results))
    /\ ret.win_count = StatisticOfAll(results, "win_count", Len(results))
    /\ ret.loss_count = StatisticOfAll(results, "loss_count", Len(results))

\* Two instruments, each with a total profit of 10,000.
TwoTimesTenThousand ==
    /\ Len(results) = 2
    /\ \A i \in 1..2 : ProfitOf(results[i]) = 10000 * 1000

\* C17 as stated: the combined total_return_pct is the sum of the profits of
\* all trades of all instruments divided by 1,000,000 and multiplied by 100,
\* whatever the number of instruments; two instruments with a profit of 10,000
\* each give 2.0; the combined counts are the sums of the instruments' counts.
C17_CombinedReturn ==
    pc = "combined" =>
       /\ ret.total_return_pct * 100000 = ProfitOfAll(results, Len(results))
       /\ TwoTimesTenThousand => ret.total_return_pct = 2 * 100
       /\ CountsAddUp

\* C17 amended: the combined total_return_pct is that quotient rounded to two
\* decimals; the example and the counts are as stated.
C17_RoundedCombinedReturn ==
    pc = "combined" =>
       /\ IsRounded(ret.total_return_pct, ProfitOfAll(results, Len(results)), 100000)
       /\ TwoTimesTenThousand => ret.total_return_pct = 2 * 100
       /\ CountsAddUp

\* C17's case: the combined statistics of two instruments that earned 10,000
\* each, with one trade each.
C17_Witness ==
    /\ pc = "combined"
    /\ TwoTimesTenThousand
    /\ ret.total_trades = 2
    /\ ret.win_count = 2
    /\ ret.total_return = 20000 * 1000
    /\ ret.total_return_pct = 2 * 100

\* C19: the list returned by run_backtest(config) holds exactly one result for
\* every instrument code of the configuration, in the order of the codes, an
\* instrument without a series included.
C19_OneResultPerCode ==
    pc = "batch_done" =>
       /\ Len(ret) = Len(stock_codes)
       /\ \A i \in 1..Len(ret) : i <= Len(stock_codes) => ret[i].stock_code = stock_codes[i]

\* What holds instead: the results are those of the codes that had a daily
\* series, in the order of the codes.
RECURSIVE IsSubsequence(_, _)
IsSubsequence(a, b) ==
    IF a = <<>> THEN TRUE
    ELSE IF b = <<>> THEN FALSE
    ELSE IF Head(a) = Head(b) THEN IsSubsequence(Tail(a), Tail(b))
    ELSE IsSubsequence(a, Tail(b))

ResultsFollowTheCodes ==
    pc = "batch_done" =>
       IsSubsequence([i \in 1..Len(ret) |-> ret[i].stock_code], stock_codes)

(***************************************************************************)
(* C21                                                                     *)
(***************************************************************************)
\* The weekly or monthly series a letter names is missing from the dictionary
\* of the call: its value is None, or the dictionary has no such key.
MissingSeries(g) == g \in {"W", "M"} /\ SeriesOf(call.kline_data, g) = None

\* The K-line case is built of terms, and one of them names granularity g.
MentionsTerm(c, g) ==
    /\ c.kind \in {"cmp", "ops", "rep", "or", "and", "not"}
    /\ g \in {c.t1.g, c.t2.g}

\* C21: when the weekly or monthly series is missing, a K-line expression
\* with a term of that granularity evaluates to false, whatever its other
\* terms and connectives, and a percentage-change gate on that granularity
\* evaluates to false; each call returns a truth value (nothing is raised).
C21_MissingSeries ==
    pc = "done" =>
       /\ ret.value \in BOOLEAN
       /\ (/\ call.fn = "evaluate_kline_strategy"
           /\ \E g \in {"W", "M"} : MissingSeries(g) /\ MentionsTerm(call.case, g))
          => ret.value = FALSE
       /\ (/\ call.fn = "evaluate_trade_buy_condition"
           /\ call.case.kind \in {"gate", "unknown_op"}
           /\ MissingSeries(call.case.g))
          => ret.value = FALSE

\* C21's case: `(D1MA >= D1MA) || (D1MA > W1MA)` on a dictionary whose weekly
\* series is None and whose daily series has a bar on the date: the first
\* comparison holds, and the expression is false.
C21_Witness ==
    /\ pc = "done"
    /\ call.fn = "evaluate_kline_strategy"
    /\ call.case.kind = "or"
    /\ call.case.op = OpGE
    /\ call.case.t2.g = "W"
    /\ "weekly" \in DOMAIN call.kline_data
    /\ call.kline_data.weekly = None
    /\ Len(BarsUpTo(call.kline_data.daily, call.date)) >= 1
    /\ ret.value = FALSE

(***************************************************************************)
(* C22                                                                     *)
(***************************************************************************)
\* A price of 20,000 a share, at which the initial capital pays for no lot.
HighPrice == 20000 * 1000

\* C22: when a buy signal fires at a close p > 0 and the capital is less than
\* 100 x p, the day changes neither capital, position nor trades, the engine
\* stays Flat and the loop goes on to the next date, where the signal is
\* computed again for a Flat engine; and a call of _execute_buy at such a
\* price returns the engine as it was.
C22_InsufficientCapital ==
    /\ [](current_position = None =>
            \A price \in (CallPrices \ {0}) \cup {HighPrice} :
               capital < 100 * price =>
                  /\ ~ExecuteBuyRaises(Engine, price)
                  /\ ExecuteBuy(Engine, "000001", "name", 1, price) = Engine)
    /\ [][(/\ DayTurn
           /\ current_position = None
           /\ signal'.action = "buy"
           /\ backtest_data[idx].close > 0
           /\ capital < 100 * backtest_data[idx].close)
          => /\ UNCHANGED <<capital, current_position, trades>>
             /\ signal'.price = Num(backtest_data[idx].close)
             /\ pc' = "loop"
             /\ idx' = idx + 1]_vars

\* C22's case: the capital was lost in a sale at a close of 0; the buy signal
\* fired on the two following dates, the second of which has just been
\* simulated, and the engine is still Flat with its capital and its one trade.
C22_Witness ==
    /\ pc = "loop"
    /\ idx = 5
    /\ Len(trades) = 1
    /\ trades[1].sell_date = Strftime(2)
    /\ signal.action = "buy"
    /\ signal.date = 4
    /\ signal.price.num > 0
    /\ capital < 100 * signal.price.num
    /\ current_position = None
    /\ call.config.kline_strategy.buy = <<>>
    /\ call.config.trade_strategy.BUYS = <<>>

(***************************************************************************)
(* C23                                                                     *)
(***************************************************************************)
\* A repetition term  (body) * N  whose body holds no parentheses remains in
\* the text.
PatternRemains(s) == RepeatSearchFrom(s, 1) # 0

\* C23: the rewrite loop of expand_repeat_expression ends for every input: the
\* call returns.  A pass over a text in which a repetition term remains changes
\* the text and the loop goes on; the loop ends after the pass that changed
\* nothing, which is the pass over a text in which no repetition term
\* remains; the text returned is that text.
C23_Terminates ==
    /\ <>(pc = "done")
    /\ [](pc = "done" =>
            /\ ~PatternRemains(ret.text)
            /\ RepeatSub(ret.text, 1) = ret.text
            /\ ret.text = expression)
    /\ [][pc = "expand" =>
            /\ PatternRemains(expression) => (pc' = "expand" /\ expression' # expression)
            /\ (pc' = "done") <=> (prev_expression = [text |-> expression])
            /\ pc' = "done" => ~PatternRemains(expression)
            /\ (prev_expression # None /\ ~PatternRemains(prev_expression.text))
                  => pc' = "done"]_vars

\* C23's case: a body holding a repetition with a count of 0, which the first
\* pass removes and the second pass, finding a new repetition term, expands;
\* the call returned after a third pass that changed nothing.
C23_Witness ==
    /\ pc = "done"
    /\ call.kind = "zero"
    /\ PatternRemains(CaseText(call))
    /\ PatternRemains(RepeatSub(CaseText(call), 1))
    /\ ret.text = RepeatSub(RepeatSub(CaseText(call), 1), 1)
    /\ ret.text # RepeatSub(CaseText(call), 1)
    /\ ~PatternRemains(ret.text)

(***************************************************************************)
(* C24                                                                     *)
(***************************************************************************)
\* The engine as run_backtest sets it before the day loop (backtest.py:42-44).
FreshEngine == [trades |-> <<>>, current_position |-> None, capital |-> initial_capital]

\* The positions the day loop opens from row i on, in order, when the engine
\* is `eng` before that row: a turn opens one when it leaves a position that
\* was not there before it.
RECURSIVE PositionsOpened(_, _)
PositionsOpened(eng, i) ==
    IF i > Len(backtest_data) THEN <<>>
    ELSE Only({(IF /\ body.eng.current_position # None
                   /\ body.eng.current_position # eng.current_position
                THEN <<body.eng.current_position>> ELSE <<>>)
               \o (IF body.raised THEN <<>> ELSE PositionsOpened(body.eng, i + 1)) :
               body \in {LoopBody(eng, call.config, call.stock_code, kline_data,
                                  backtest_data[i].date)}})

\* The trade closes the position: it carries its buy date, its buy price (to
\* two decimals, as _execute_sell records it) and its shares.
Closes(trade, pos) ==
    /\ trade.buy_date = Strftime(pos.buy_date)
    /\ trade.buy_price = Round2(pos.buy_price)
    /\ trade.shares = pos.shares
    /\ trade.stock_code = pos.stock_code

\* C24: in the result of a run the ledger has one trade for every position the
\* day loop opened, in the order of the buys, each with the buy date, buy
\* price and shares of its position; no position is left open and none is
\* recorded twice.
C24_OneTradePerPosition ==
    pc = "done" =>
        /\ current_position = None
        /\ ret.trades = trades
        /\ Len(ret.trades) = Len(PositionsOpened(FreshEngine, 1))
        /\ \A j \in 1..Len(ret.trades) :
              /\ Closes(ret.trades[j], PositionsOpened(FreshEngine, 1)[j])
              /\ ret.trades[j].trade_id = j

\* C24's case: three positions opened on days 1, 3 and 5 of a five-day replay,
\* the first two sold by a rule and the third by the forced close, returned as
\* three trades.
C24_Witness ==
    /\ pc = "done"
    /\ Len(PositionsOpened(FreshEngine, 1)) = 3
    /\ Len(ret.trades) = 3
    /\ ret.trades[1].buy_date = Strftime(1)
    /\ ret.trades[2].buy_date = Strftime(3)
    /\ ret.trades[3].buy_date = Strftime(5)
    /\ ret.trades[2].sell_reason # BacktestEnd
    /\ ret.trades[3].sell_reason = BacktestEnd

(***************************************************************************)
(* C25                                                                     *)
(***************************************************************************)
\* The sell dates of the list never go back.
Chronological(ts) ==
    \A i, j \in 1..Len(ts) : i < j => ts[i].sell_date.ymd <= ts[j].sell_date.ymd

\* C25: a step of a run leaves the trades recorded so far as they are and in
\* their places, and adds at most one trade, at the end; it adds one only when
\* it sells the open position (a sell signal of the day, or the forced close at
\* the return); the sell dates of the ledger, and of the returned list, are
\* non-decreasing in list order.
C25_AppendOnly ==
    /\ [](Chronological(trades) /\ (pc = "done" => Chronological(ret.trades)))
    /\ [][/\ Len(trades') \in {Len(trades), Len(trades) + 1}
          /\ SubSeq(trades', 1, Len(trades)) = trades
          /\ trades' # trades =>
                /\ current_position # None
                /\ current_position' = None
                /\ trades'[Len(trades')].buy_date = Strftime(current_position.buy_date)
                /\ \/ DayTurn /\ signal'.action = "sell"
                         /\ trades'[Len(trades')].sell_date = Strftime(signal'.date)
                   \/ ~DayTurn /\ pc' = "done"
                         /\ trades'[Len(trades')].sell_reason = BacktestEnd]_vars

\* C25's case: a ledger of two trades sold on days 2 and 4, the first still in
\* its place after the second sale and after the purchase of day 5.
C25_Witness ==
    /\ pc = "loop"
    /\ idx = 6
    /\ Len(trades) = 2
    /\ trades[1].sell_date = Strftime(2)
    /\ trades[2].sell_date = Strftime(4)
    /\ trades[1].trade_id = 1
    /\ current_position # None
    /\ current_position.buy_date = 5

(***************************************************************************)
(* C26                                                                     *)
(***************************************************************************)
\* The dates of the window ascend.
Ascending(rows) == \A i, j \in 1..Len(rows) : i < j => rows[i].date < rows[j].date

\* The sell rules of the configuration, asked about the open position on the
\* date of the last signal.
SellRulesHold ==
    CheckSellSignal(TradingStrategy(call.config),
                    CurrentKlineData(kline_data, signal.date, kline_data.stock_name),
                    signal.date, current_position.buy_price,
                    current_position.buy_date).should_sell

\* The buy conditions of the configuration on the date.
BuyConditionsHoldOn(date) ==
    CheckBuySignal(TradingStrategy(call.config),
                   CurrentKlineData(kline_data, date, kline_data.stock_name),
                   date, FALSE)

\* C26: the dates of the window ascend; a turn of the day loop evaluates the
\* date at idx and moves to the next one, nothing else moves idx, and the call
\* returns only after the last date; a turn that starts Flat records no trade
\* and a position it leaves was bought on its date; a turn that starts Holding
\* keeps the position or leaves the engine Flat with one more trade, so that a
\* position sold on a date is not reopened on it; after the return, or after a
\* turn that raised, nothing is evaluated.
C26_OneDecisionPerDay ==
    /\ [](pc \in {"loop", "done", "raised"} => Ascending(backtest_data))
    /\ [][DayTurn =>
            /\ signal'.date = backtest_data[idx].date
            /\ backtest_data' = backtest_data
            /\ pc' = "loop" => idx' = idx + 1
            /\ current_position = None =>
                  /\ trades' = trades
                  /\ signal'.action # "sell"
                  /\ current_position' # None =>
                        /\ signal'.action = "buy"
                        /\ current_position'.buy_date = backtest_data[idx].date
            /\ current_position # None =>
                  /\ signal'.action # "buy"
                  /\ \/ current_position' = current_position /\ trades' = trades
                     \/ /\ current_position' = None
                        /\ signal'.action = "sell"
                        /\ Len(trades') = Len(trades) + 1]_vars
    /\ [][(pc = "loop" /\ ~DayTurn) =>
            /\ idx' = idx
            /\ idx = Len(backtest_data) + 1
            /\ pc' = "done"]_vars
    /\ [][pc \notin {"done", "raised"}]_vars

\* C26's case: the position of day 1 was sold on day 2, a day on which the buy
\* conditions hold, and no position was opened that day; the position bought
\* on day 3 stays open although the sell rules hold for it on day 3.
C26_Witness ==
    /\ pc = "loop"
    /\ idx = 4
    /\ Len(trades) = 1
    /\ trades[1].buy_date = Strftime(1)
    /\ trades[1].sell_date = Strftime(2)
    /\ BuyConditionsHoldOn(2)
    /\ signal.action = "buy"
    /\ signal.date = 3
    /\ current_position # None
    /\ current_position.buy_date = 3
    /\ SellRulesHold

(***************************************************************************)
(* SpecConfig: calls of load_config, and the file they read                *)
(***************************************************************************)
\* The process has imported config.py; no file is at the configuration path.
ConfigInit ==
    /\ pc = "config"
    /\ call = [fn |-> "load_config"]
    /\ ret = None
    /\ expression = <<>>
    /\ prev_expression = None
    /\ EngineIdle
    /\ stock_codes = <<>>
    /\ results = <<>>
    /\ ConfigAsImported

\* load_config(config_path) (config.py:32-59).  A file that json.load accepts
\* is merged into a copy of DEFAULT_CONFIG; one it rejects gives a copy of
\* DEFAULT_CONFIG; with no file, DEFAULT_CONFIG is written to the path (a write
\* that fails is reported and ignored, config.py:80-82) and a copy returned.
LoadConfig ==
    /\ pc = "config"
    /\ IF config_file = None
       THEN /\ \E written \in BOOLEAN :
                  config_file' = IF written THEN JsonDump(DEFAULT_CONFIG, "DEFAULT_CONFIG")
                                 ELSE None
            /\ ret' = Deref(DEFAULT_CONFIG, Ref("DEFAULT_CONFIG"))
            /\ UNCHANGED DEFAULT_CONFIG
       ELSE IF config_file = InvalidJson
       THEN /\ ret' = Deref(DEFAULT_CONFIG, Ref("DEFAULT_CONFIG"))
            /\ UNCHANGED <<DEFAULT_CONFIG, config_file>>
       ELSE /\ \E heap \in {MergeIntoCopy(DEFAULT_CONFIG, config_file.dict)} :
                  /\ ret' = Deref(heap, Ref("merged_config"))
                  /\ DEFAULT_CONFIG' = Module(heap)
            /\ UNCHANGED config_file
    /\ UNCHANGED <<pc, call, expression, prev_expression>>
    /\ UNCHANGED engine_vars
    /\ UNCHANGED batch_vars

\* The user writes a file to the configuration path.
WriteConfigFile ==
    /\ pc = "config"
    /\ \E f \in UserFiles : config_file' = f
    /\ UNCHANGED <<pc, call, ret, expression, prev_expression, DEFAULT_CONFIG>>
    /\ UNCHANGED engine_vars
    /\ UNCHANGED batch_vars

\* The user removes the file.
RemoveConfigFile ==
    /\ pc = "config"
    /\ config_file # None
    /\ config_file' = None
    /\ UNCHANGED <<pc, call, ret, expression, prev_expression, DEFAULT_CONFIG>>
    /\ UNCHANGED engine_vars
    /\ UNCHANGED batch_vars

ConfigNext == LoadConfig \/ WriteConfigFile \/ RemoveConfigFile

SpecConfig == ConfigInit /\ [][ConfigNext]_vars

(***************************************************************************)
(* C27                                                                     *)
(***************************************************************************)
\* The values DEFAULT_CONFIG holds when config.py is imported.
OriginalDefaults == Deref(ImportedConfig, Ref("DEFAULT_CONFIG"))

\* load_config falls back to the defaults: no file, or a file that is not JSON.
FallsBack == config_file = None \/ config_file = InvalidJson

\* C27: after any sequence of load_config calls and of files written to the
\* path, DEFAULT_CONFIG holds the values it was imported with, nested ones
\* included, and a load that falls back to the defaults returns those values.
C27_DefaultsNeverMutated ==
    /\ [](pc = "config" => Deref(DEFAULT_CONFIG, Ref("DEFAULT_CONFIG")) = OriginalDefaults)
    /\ [][(LoadConfig /\ FallsBack) => ret' = OriginalDefaults]_vars

\* What a merge does leave alone: the keys of DEFAULT_CONFIG itself, and which
\* dicts its two strategy keys refer to.
TopLevelKept ==
    pc = "config" => DEFAULT_CONFIG["DEFAULT_CONFIG"] = ImportedConfig["DEFAULT_CONFIG"]

\* A load of a file that overrides kline_strategy.buy was followed by a load
\* with no file, which returned the overriding text as the default.
DefaultsOverwritten ==
    /\ pc = "config"
    /\ config_file = None
    /\ ret # None
    /\ ret.dict.kline_strategy.dict.buy = Str("D5MA > D10MA")
    /\ ret.dict.target_stock_code = Str("000001")

(***************************************************************************)
(* C28                                                                     *)
(***************************************************************************)
\* The initial capital plus the profits of the trades recorded so far.
LedgerValue == initial_capital + SumField(trades, "profit")

\* C28: at every point of a run, the capital of a Flat engine is the initial
\* capital plus the sum of the profits of the trades recorded so far, and the
\* capital of a Holding engine plus the cost of its position is that sum; the
\* final_capital of a result with trades is the initial capital plus its
\* total_return.
C28_LedgerCapital ==
    /\ pc \in {"start", "loop", "done", "raised"} =>
          IF current_position = None
          THEN capital = LedgerValue
          ELSE capital + current_position.cost = LedgerValue
    /\ (pc = "done" /\ ret.trades # <<>>) =>
          /\ ret.statistics.final_capital = initial_capital + ret.statistics.total_return
          /\ ret.statistics.final_capital = capital

\* C28's case: a result of two trades, a gain and then a smaller loss, whose
\* final capital is the initial capital plus the two profits.
C28_Witness ==
    /\ pc = "done"
    /\ Len(ret.trades) = 2
    /\ ret.trades[1].profit > 0
    /\ ret.trades[2].profit < 0
    /\ ret.statistics.total_return = ret.trades[1].profit + ret.trades[2].profit
    /\ ret.statistics.total_return # 0
    /\ ret.statistics.final_capital = initial_capital + ret.statistics.total_return

(***************************************************************************)
(* C29                                                                     *)
(***************************************************************************)
\* The sell rules of the configuration of the run.
SellRules == call.config.trade_strategy.SELL

\* -1, 0 or 1
Sign(x) == IF x < 0 THEN -1 ELSE IF x > 0 THEN 1 ELSE 0

\* The change from the buy price to the sell price of the trade is below
\* pct (in units of 0.01 percent), and above it.
ChangeBelow(t, pct) == (t.sell_price - t.buy_price) * 10000 < pct * t.buy_price
ChangeAbove(t, pct) == (t.sell_price - t.buy_price) * 10000 > pct * t.buy_price

ProfitWithZeroPct ==
    /\ pc = "done"
    /\ Len(ret.trades) >= 1
    /\ ret.trades[1].sell_reason = TakeProfit
    /\ ret.trades[1].profit = 33 * 1000
    /\ ret.trades[1].profit_pct = 0

(***************************************************************************)
(* C30                                                                     *)
(***************************************************************************)
\* The last date the day loop simulated.
LastSimulated == backtest_data[Len(backtest_data)].date

\* C30: in a returned ledger a trade with the reason of the forced close is
\* the last one (so there is at most one) and is dated the last simulated
\* date; every other trade was sold on a later date than it was bought, with
\* hold_days >= 1; the forced close of a position bought on the last date
\* gives a last trade sold that same date with hold_days 0 and profit 0, which
\* the statistics count among the losses.
C30_ForcedCloseLast ==
    /\ [](pc = "done" =>
            \A i \in 1..Len(ret.trades) :
                LET t == ret.trades[i]
                IN  /\ t.sell_reason = BacktestEnd =>
                          /\ i = Len(ret.trades)
                          /\ t.sell_date = Strftime(LastSimulated)
                    /\ t.sell_reason # BacktestEnd =>
                          /\ t.hold_days >= 1
                          /\ t.sell_date.ymd > t.buy_date.ymd
                    /\ t.hold_days = t.sell_date.ymd - t.buy_date.ymd
                    /\ t.hold_days = 0 =>
                          /\ t.sell_reason = BacktestEnd
                          /\ t.profit = 0
                          /\ t.profit_pct = 0)
    /\ [][(/\ pc = "loop"
           /\ ~DayTurn
           /\ current_position # None
           /\ current_position.buy_date = LastSimulated) =>
             LET last == ret'.trades[Len(ret'.trades)]
             IN  /\ pc' = "done"
                 /\ Len(ret'.trades) = Len(trades) + 1
                 /\ last.sell_reason = BacktestEnd
                 /\ last.buy_date = Strftime(LastSimulated)
                 /\ last.sell_date = Strftime(LastSimulated)
                 /\ last.hold_days = 0
                 /\ last.profit = 0
                 /\ ret'.statistics.loss_count = Losses(ret'.trades)
                 /\ ret'.statistics.loss_count >= 1
                 /\ ret'.statistics.win_count = Wins(trades)
                 /\ ret'.statistics.win_count + ret'.statistics.loss_count
                       = ret'.statistics.total_trades]_vars

\* C30's case: a winning trade sold on day 2, a position bought on the last
\* day and closed that day by the forced close: two trades, one won, one lost.
C30_Witness ==
    /\ pc = "done"
    /\ Len(ret.trades) = 2
    /\ ret.trades[1].profit > 0
    /\ ret.trades[1].hold_days >= 1
    /\ ret.trades[1].sell_reason # BacktestEnd
    /\ ret.trades[2].sell_reason = BacktestEnd
    /\ ret.trades[2].buy_date = Strftime(LastSimulated)
    /\ ret.trades[2].hold_days = 0
    /\ ret.trades[2].profit = 0
    /\ ret.statistics.win_count = 1
    /\ ret.statistics.loss_count = 1

=============================================================================
